---- MODULE Spec2Model ----
(***************************************************************************)
(* Model of the garmr authentication core: registration, credential and   *)
(* token authentication, magic-link verification and the token service.   *)
(*                                                                         *)
(* Strings that the code transforms (emails) are sequences of characters,  *)
(* so that toLowerCase is computed, not assumed.  Time is the JWT clock    *)
(* (Math.floor(Date.now() / 1000)) counted in units of fifteen minutes.    *)
(***************************************************************************)
EXTENDS Integers, Sequences, FiniteSets, TLC

\* ------------------------------------------------------------------ bounds
MaxTime == 3
MaxEvents == 3
MaxCalls == 2
MaxHashes == 3
StartTime == 1

\* the most permissions a principal is granted
MaxHeld == 2

\* ------------------------------------------------------- characters, emails
LowerChar(c) ==
    CASE c = "A" -> "a"
      [] c = "B" -> "b"
      [] c = "C" -> "c"
      [] c = "E" -> "e"
      [] c = "I" -> "i"
      [] c = "R" -> "r"
      [] c = "S" -> "s"
      [] c = "X" -> "x"
      [] OTHER -> c

\* mutant: the email used as supplied
toLowerCaseOmitted(s) == s

\* String.prototype.toLowerCase, character by character
toLowerCase(s) == [i \in DOMAIN s |-> LowerChar(s[i])]

NoEmail == << >>

Emails == { <<"a", "@", "x">>, <<"A", "@", "x">>, <<"b", "@", "x">> }

Passwords == { "p", "q" }

\* ------------------------------------------------------------ PasswordService
NoPassword == [salt |-> 0, digest |-> ""]

\* the number of leading bytes of a password that bcrypt reads (72 in the
\* library, scaled to the passwords of this model)
BcryptBytes == 2

\* the part of a password that enters the bcrypt digest
bcryptInput(password) ==
    IF Len(password) > BcryptBytes THEN SubSeq(password, 1, BcryptBytes) ELSE password

\* bcrypt.hashSync(password, saltRounds): the digest is bound to the salt drawn
\* for this call and to the bytes of the password that bcrypt reads
hash(password, salt) == [salt |-> salt, digest |-> bcryptInput(password)]

\* bcrypt.compareSync(password, hash): throws when the hash is null/undefined
compare(password, h) ==
    IF h = NoPassword THEN "throws"
    ELSE IF h.digest = bcryptInput(password) THEN "true" ELSE "false"

\* passwords longer than what bcrypt reads, equal up to there
LongPasswords == { "ppa", "ppb" }

\* ------------------------------------------------------------ principal store
NoPrincipal == [id |-> 0, email |-> NoEmail, password |-> NoPassword]

\* repo.findOne({ where: { email } }): exact (case-sensitive) column match
findOneByEmail(st, email) ==
    IF \E p \in st : p.email = email
    THEN CHOOSE p \in st : p.email = email
    ELSE NoPrincipal

\* repo.findOne({ where: { id } })
findOneById(st, id) ==
    IF \E p \in st : p.id = id
    THEN CHOOSE p \in st : p.id = id
    ELSE NoPrincipal

\* mutant: an entity whose email column is not unique
violatesUniqueNever(st, email) == FALSE

\* @Column({ unique: true }) email: an insert of an email already present is
\* refused by the store
violatesUnique(st, email) == \E p \in st : p.email = email

\* @PrimaryGeneratedColumn: ids are generated by the store, never reused
generatedId(st) == Cardinality(st) + 1

\* repo.save(repo.create(attrs)) of a new entity
saved(st, email, password) ==
    [id |-> generatedId(st), email |-> email, password |-> password]

\* ------------------------------------------------------------------- events
REGISTERED == "garmr.registered"
AUTHENTICATED == "garmr.authenticated"

emit(evs, name, principal) == Append(evs, [name |-> name, principal |-> principal])

\* ------------------------------------------------------------ configuration
\* GarmrOptions.secret and a key the server does not use
Secret == "secret"
OtherSecret == "other-secret"

\* GarmrOptions.expiresIn (units of fifteen minutes)
ConfiguredExpiresIn == 2

\* the "15m" of MagicLinkService.send
MagicLinkExpiresIn == 1

MAGIC_LINK_AUDIENCE == "magic-link"
SESSION_AUDIENCE == "session"

\* ------------------------------------------------------------- jsonwebtoken
\* Absent claims (JSON drops undefined members); an empty string is falsy too
NoSub == 0
NoAud == ""
NoTime == -1

NoClaims == [sub |-> NoSub, aud |-> NoAud, email |-> NoEmail,
             iat |-> NoTime, nbf |-> NoTime, exp |-> NoTime]

\* HMAC over header and payload under a key
Sign(alg, payload, key) == [alg |-> alg, over |-> payload, key |-> key]

\* the empty third part of an unsigned token
NoSignature == [alg |-> "none", over |-> NoClaims, key |-> ""]

\* a string that is not three dot-separated parts ("", "notajwt", "abc.def")
Unparsable(parts) == [parts |-> parts, alg |-> "", payload |-> NoClaims, sig |-> NoSignature]

EmptyString == Unparsable(0)

\* jwt.sign(payload, secret, { expiresIn, notBefore: "0s" }) at clock time t
jwtSign(claims, key, expiresIn, t) ==
    LET payload == [sub |-> claims.sub, aud |-> claims.aud, email |-> claims.email,
                    iat |-> t, nbf |-> t + 0, exp |-> t + expiresIn]
    IN  [parts |-> 3, alg |-> "HS256", payload |-> payload,
         sig |-> Sign("HS256", payload, key)]

\* jwt.decode(token): null for anything that is not a three-part token
jwtDecode(token) ==
    IF token.parts = 3 THEN [ok |-> TRUE, payload |-> token.payload]
    ELSE [ok |-> FALSE, payload |-> NoClaims]

HmacAlgorithms == { "HS256", "HS384", "HS512" }

\* mutant: verification that lets an unsigned token through
jwtVerifyErrorAcceptingNone(token, key, t) ==
    IF token.parts # 3 THEN "JsonWebTokenError"
    ELSE IF token.sig # NoSignature /\ token.alg \notin HmacAlgorithms THEN "JsonWebTokenError"
    ELSE IF token.sig # NoSignature /\ token.sig # Sign(token.alg, token.payload, key)
         THEN "JsonWebTokenError"
    ELSE IF token.payload.nbf # NoTime /\ token.payload.nbf > t THEN "NotBeforeError"
    ELSE IF token.payload.exp # NoTime /\ t >= token.payload.exp THEN "TokenExpiredError"
    ELSE ""

\* mutant: a token still accepted at the instant of its exp
jwtVerifyErrorLateExpiry(token, key, t) ==
    IF token.parts # 3 THEN "JsonWebTokenError"
    ELSE IF token.sig = NoSignature THEN "JsonWebTokenError"
    ELSE IF token.alg \notin HmacAlgorithms THEN "JsonWebTokenError"
    ELSE IF token.sig # Sign(token.alg, token.payload, key) THEN "JsonWebTokenError"
    ELSE IF token.payload.nbf # NoTime /\ token.payload.nbf > t THEN "NotBeforeError"
    ELSE IF token.payload.exp # NoTime /\ t > token.payload.exp THEN "TokenExpiredError"
    ELSE ""

\* jwt.verify(token, secret) at clock time t: the error class, "" when verified
jwtVerifyError(token, key, t) ==
    IF token.parts = 0 THEN "JsonWebTokenError"               \* jwt must be provided
    ELSE IF token.parts # 3 THEN "JsonWebTokenError"          \* jwt malformed
    ELSE IF token.sig = NoSignature THEN "JsonWebTokenError"  \* jwt signature is required
    ELSE IF token.alg \notin HmacAlgorithms THEN "JsonWebTokenError"  \* invalid algorithm
    ELSE IF token.sig # Sign(token.alg, token.payload, key)
         THEN "JsonWebTokenError"                             \* invalid signature
    ELSE IF token.payload.nbf # NoTime /\ token.payload.nbf > t
         THEN "NotBeforeError"                                \* jwt not active
    ELSE IF token.payload.exp # NoTime /\ t >= token.payload.exp
         THEN "TokenExpiredError"                             \* jwt expired
    ELSE ""

\* mutant: every time-based failure reported as expiry
reasonTimeBased(cause) ==
    IF cause \in { "TokenExpiredError", "NotBeforeError" } THEN "expired" ELSE "invalid"

\* TokenFailedVerificationException.reason
reason(cause) == IF cause = "TokenExpiredError" THEN "expired" ELSE "invalid"

\* options?.expiresIn ?? this.options.expiresIn
NoOptions == [given |-> FALSE, expiresIn |-> 0]

\* mutant: `||` in place of `??`, so that an expiresIn of 0 falls back to the default
expiresInOrDefaultFalsy(options) ==
    IF options.given /\ options.expiresIn # 0 THEN options.expiresIn ELSE ConfiguredExpiresIn

expiresInOrDefault(options) ==
    IF options.given THEN options.expiresIn ELSE ConfiguredExpiresIn

\* --------------------------------------------------------- PermissionService
\* Permissions are strings, modelled as sequences of characters ("a:b", "*", ...)
\* what a destructured part of a split is when the string has no such part
Undefined == << "undefined" >>

\* String.prototype.split(":")
RECURSIVE split(_)
split(s) ==
    IF \A i \in 1 .. Len(s) : s[i] # ":"
    THEN << s >>
    ELSE LET k == CHOOSE i \in 1 .. Len(s) :
                      s[i] = ":" /\ \A j \in 1 .. (i - 1) : s[j] # ":"
         IN  << SubSeq(s, 1, k - 1) >> \o split(SubSeq(s, k + 1, Len(s)))

\* const [first, second] = parts
part(parts, n) == IF Len(parts) >= n THEN parts[n] ELSE Undefined

\* Array.prototype.join(" | ")
RECURSIVE join(_)
join(strings) ==
    IF Len(strings) = 0 THEN << >>
    ELSE IF Len(strings) = 1 THEN strings[1]
    ELSE strings[1] \o << " ", "|", " " >> \o join(Tail(strings))

\* mutant: "*:resource" matching whatever the required resource is
matchesPermissionAnyResource(granted, required) ==
    LET grantedAction == part(split(granted), 1)
        grantedResource == part(split(granted), 2)
        requiredAction == part(split(required), 1)
        requiredResource == part(split(required), 2)
    IN  IF granted = required THEN TRUE
        ELSE IF granted = << "*" >> THEN TRUE
        ELSE IF requiredResource = Undefined \/ requiredResource = << >> THEN FALSE
        ELSE IF grantedAction = << "*" >> THEN TRUE
        ELSE IF grantedAction = requiredAction /\ grantedResource = << "*" >> THEN TRUE
        ELSE FALSE

\* mutant: no early return for a required permission without a resource part
matchesPermissionBareUnchecked(granted, required) ==
    LET grantedAction == part(split(granted), 1)
        grantedResource == part(split(granted), 2)
        requiredAction == part(split(required), 1)
        requiredResource == part(split(required), 2)
    IN  IF granted = required THEN TRUE
        ELSE IF granted = << "*" >> THEN TRUE
        ELSE IF grantedAction = << "*" >> /\ grantedResource = requiredResource THEN TRUE
        ELSE IF grantedAction = requiredAction /\ grantedResource = << "*" >> THEN TRUE
        ELSE FALSE

\* mutant: no superuser wildcard
matchesPermissionNoSuperuser(granted, required) ==
    LET grantedAction == part(split(granted), 1)
        grantedResource == part(split(granted), 2)
        requiredAction == part(split(required), 1)
        requiredResource == part(split(required), 2)
    IN  IF granted = required THEN TRUE
        ELSE IF requiredResource = Undefined \/ requiredResource = << >> THEN FALSE
        ELSE IF grantedAction = << "*" >> /\ grantedResource = requiredResource THEN TRUE
        ELSE IF grantedAction = requiredAction /\ grantedResource = << "*" >> THEN TRUE
        ELSE FALSE

\* mutant: "*:*" taken for the superuser wildcard
matchesPermissionDoubleWildcard(granted, required) ==
    LET grantedAction == part(split(granted), 1)
        grantedResource == part(split(granted), 2)
        requiredAction == part(split(required), 1)
        requiredResource == part(split(required), 2)
    IN  IF granted = required THEN TRUE
        ELSE IF granted = << "*" >> \/ granted = << "*", ":", "*" >> THEN TRUE
        ELSE IF requiredResource = Undefined \/ requiredResource = << >> THEN FALSE
        ELSE IF grantedAction = << "*" >> /\ grantedResource = requiredResource THEN TRUE
        ELSE IF grantedAction = requiredAction /\ grantedResource = << "*" >> THEN TRUE
        ELSE FALSE

matchesPermission(granted, required) ==
    LET grantedAction == part(split(granted), 1)
        grantedResource == part(split(granted), 2)
        requiredAction == part(split(required), 1)
        requiredResource == part(split(required), 2)
    IN  IF granted = required THEN TRUE
        ELSE IF granted = << "*" >> THEN TRUE
        ELSE IF requiredResource = Undefined \/ requiredResource = << >> THEN FALSE
        ELSE IF grantedAction = << "*" >> /\ grantedResource = requiredResource THEN TRUE
        ELSE IF grantedAction = requiredAction /\ grantedResource = << "*" >> THEN TRUE
        ELSE FALSE

\* a list of strings that is undefined (no permissions property, no metadata)
UndefinedList == << Undefined >>

\* principal.permissions ?? []
permissionsOrEmpty(permissions) == IF permissions = UndefinedList THEN << >> ELSE permissions

\* mutant: only the permission granted last is looked at
hasPermissionLastOnly(permissions, permission) ==
    /\ Len(permissionsOrEmpty(permissions)) > 0
    /\ matchesPermission(permissionsOrEmpty(permissions)[Len(permissionsOrEmpty(permissions))],
                         permission)

hasPermission(permissions, permission) ==
    \E i \in 1 .. Len(permissionsOrEmpty(permissions)) :
        matchesPermission(permissionsOrEmpty(permissions)[i], permission)

hasAllPermissions(permissions, required) ==
    \A i \in 1 .. Len(required) : hasPermission(permissions, required[i])

\* mutant: "none is missing" in place of "some is held"
hasAnyPermissionVacuous(permissions, required) ==
    \A i \in 1 .. Len(required) : hasPermission(permissions, required[i])

hasAnyPermission(permissions, required) ==
    \E i \in 1 .. Len(required) : hasPermission(permissions, required[i])

\* what a require call throws: nothing, or PermissionDeniedException(permission)
NotDenied == [thrown |-> FALSE, permission |-> << >>]

Denied(permission) == [thrown |-> TRUE, permission |-> permission]

\* mutant: the whole list checked, the last missing permission reported
requireAllPermissionsLastMissing(permissions, required) ==
    LET missing == { i \in 1 .. Len(required) : ~ hasPermission(permissions, required[i]) }
    IN  IF missing = {} THEN NotDenied
        ELSE Denied(required[CHOOSE i \in missing : \A j \in missing : j <= i])

\* the loop of requireAllPermissions throws at the first permission not held
requireAllPermissions(permissions, required) ==
    LET missing == { i \in 1 .. Len(required) : ~ hasPermission(permissions, required[i]) }
    IN  IF missing = {} THEN NotDenied
        ELSE Denied(required[CHOOSE i \in missing : \A j \in missing : i <= j])

\* mutant: only the first alternative reported
requireAnyPermissionFirstOnly(permissions, required) ==
    IF ~ hasAnyPermission(permissions, required)
    THEN Denied(IF Len(required) = 0 THEN << >> ELSE required[1])
    ELSE NotDenied

requireAnyPermission(permissions, required) ==
    IF ~ hasAnyPermission(permissions, required) THEN Denied(join(required)) ELSE NotDenied

\* -------------------------------------------------------------------- state
VARIABLES
    now,      \* the clock, Math.floor(Date.now() / 1000)
    store,    \* the principal store: the rows of the configured entity
    events,   \* what EventEmitter2.emit has been called with, in order
    hashes,   \* number of salts PasswordService.hash has drawn
    calls,    \* in-flight and finished register / magic-link verify calls
    last,     \* the most recent call of a single-step operation and its result
    held,     \* the token the client holds and presents
    issued,   \* the most recent TokenService.issue call: its arguments, time and token
    req       \* the request in the pipeline: its Authorization header and principal

vars == << now, store, events, hashes, calls, last, held, issued, req >>

Slots == 1 .. MaxCalls

\* A call: its input, where it is (pc) and, once done, how it ended
NoCall ==
    [op |-> "", pc |-> "idle", email |-> NoEmail, password |-> "", token |-> EmptyString,
     claims |-> NoClaims, options |-> NoOptions, at |-> NoTime,
     outcome |-> "", error |-> "", message |-> "", id |-> NoSub, identifier |-> NoEmail,
     principal |-> NoPrincipal, isNewUser |-> FALSE, payload |-> NoClaims,
     permissions |-> UndefinedList, required |-> << >>, permission |-> << >>,
     answer |-> FALSE, carrier |-> "", plain |-> "", stored |-> NoPassword]

Returned(call, principal) ==
    [call EXCEPT !.pc = "done", !.outcome = "ok", !.principal = principal]

Thrown(call, error, message) ==
    [call EXCEPT !.pc = "done", !.outcome = "error", !.error = error, !.message = message]

Pending == { c \in Slots : calls[c].pc = "saving" }

NoIssue == [claims |-> NoClaims, options |-> NoOptions, at |-> NoTime, token |-> EmptyString]

\* a call is recorded in the lowest slot that holds no call in flight
Free(c) == /\ calls[c].pc # "saving"
           /\ \A d \in Slots : d < c => calls[d].pc = "saving"

\* room left for the calls that may still hash and emit
Room == /\ Len(events) + Cardinality(Pending) < MaxEvents
        /\ hashes + Cardinality(Pending) < MaxHashes

\* ------------------------------------------------------ RegistrationService
\* register, up to the resolution of `await repo.findOne`
RegisterLookup(c, email, password) ==
    /\ Free(c)
    /\ Room
    /\ LET call == [NoCall EXCEPT !.op = "register", !.email = email,
                                  !.password = password, !.at = now]
           lower == toLowerCase(email)
       IN  IF findOneByEmail(store, lower) # NoPrincipal
           THEN calls' = [calls EXCEPT ![c] =
                    [Thrown(call, "EmailAlreadyExistsException", "") EXCEPT !.identifier = email]]
           ELSE calls' = [calls EXCEPT ![c] = [call EXCEPT !.pc = "saving"]]
    /\ UNCHANGED << now, store, events, hashes, last, held, issued, req >>

\* register, from the hash to the return: `await repo.save` and the emit
RegisterSave(c) ==
    /\ calls[c].pc = "saving"
    /\ calls[c].op = "register"
    /\ hashes' = hashes + 1
    /\ LET call == calls[c]
           email == toLowerCase(call.email)
           entity == saved(store, email, hash(call.password, hashes + 1))
       IN  IF violatesUnique(store, email)
           THEN /\ calls' = [calls EXCEPT ![c] = Thrown(call, "QueryFailedError", "")]
                /\ UNCHANGED << store, events >>
           ELSE /\ store' = store \cup { entity }
                /\ events' = emit(events, REGISTERED, entity)
                /\ calls' = [calls EXCEPT ![c] = Returned(call, entity)]
    /\ UNCHANGED << now, last, held, issued, req >>

\* ---------------------------------------------------- AuthenticationService
\* mutant: the failure reports the normalised email it looked up
authenticateCredentialsNormalised(call, email, password, st) ==
    LET entity == findOneByEmail(st, toLowerCase(email))
        matches == IF entity = NoPrincipal THEN "false"
                   ELSE compare(password, entity.password)
    IN  CASE matches = "throws" -> Thrown(call, "Error", "data and hash arguments required")
          [] matches = "false" ->
                [Thrown(call, "IncorrectCredentialsException", "")
                    EXCEPT !.identifier = toLowerCase(email)]
          [] OTHER -> Returned(call, entity)

\* authenticate({ email, password }): the result of authenticateCredentials
authenticateCredentials(call, email, password, st) ==
    LET entity == findOneByEmail(st, toLowerCase(email))
        matches == IF entity = NoPrincipal THEN "false"
                   ELSE compare(password, entity.password)
    IN  CASE matches = "throws" -> Thrown(call, "Error", "data and hash arguments required")
          [] matches = "false" ->
                [Thrown(call, "IncorrectCredentialsException", "") EXCEPT !.identifier = email]
          [] OTHER -> Returned(call, entity)

\* the emit of a successful authenticate
authenticated(evs, result) ==
    IF result.outcome = "ok" THEN emit(evs, AUTHENTICATED, result.principal) ELSE evs

\* authenticate({ email, password })
AuthenticateCredentials(email, password) ==
    /\ Len(events) < MaxEvents
    /\ LET call == [NoCall EXCEPT !.op = "authenticateCredentials", !.email = email,
                                  !.password = password, !.at = now]
           result == authenticateCredentials(call, email, password, store)
       IN  /\ last' = result
           /\ events' = authenticated(events, result)
    /\ UNCHANGED << now, store, hashes, calls, held, issued, req >>

\* mutant: the payload's sub looked up without a check that it is there
authenticateJwtSubUnchecked(call, token, st, t) ==
    LET cause == jwtVerifyError(token, Secret, t)
        sub == token.payload.sub
        entity == findOneById(st, sub)
    IN  IF token = EmptyString
        THEN Thrown(call, "InvalidCredentialsException", "Invalid JWT: JWT not provided")
        ELSE IF cause = "NotBeforeError"
        THEN Thrown(call, "InvalidCredentialsException", "Invalid JWT: Not active yet (nbf claim)")
        ELSE IF cause = "TokenExpiredError"
        THEN Thrown(call, "InvalidCredentialsException", "Invalid JWT: Token expired")
        ELSE IF cause # ""
        THEN Thrown(call, "InvalidCredentialsException", "Invalid JWT: Invalid JWT signature")
        ELSE IF entity = NoPrincipal
        THEN [Thrown(call, "IncorrectCredentialsException", "") EXCEPT !.id = sub]
        ELSE Returned(call, entity)

\* mutant: every verification failure reported as a bad signature
authenticateJwtOneMessage(call, token, st, t) ==
    LET cause == jwtVerifyError(token, Secret, t)
        sub == token.payload.sub
        entity == findOneById(st, sub)
    IN  IF token = EmptyString
        THEN Thrown(call, "InvalidCredentialsException", "Invalid JWT: JWT not provided")
        ELSE IF cause # ""
        THEN Thrown(call, "InvalidCredentialsException", "Invalid JWT: Invalid JWT signature")
        ELSE IF sub = NoSub
        THEN Thrown(call, "InvalidCredentialsException", "Invalid JWT payload: missing sub claim")
        ELSE IF entity = NoPrincipal
        THEN [Thrown(call, "IncorrectCredentialsException", "") EXCEPT !.id = sub]
        ELSE Returned(call, entity)

\* authenticate(token): the result of authenticateJwt for a string argument
authenticateJwt(call, token, st, t) ==
    LET cause == jwtVerifyError(token, Secret, t)
        sub == token.payload.sub
        entity == findOneById(st, sub)
    IN  IF token = EmptyString
        THEN Thrown(call, "InvalidCredentialsException", "Invalid JWT: JWT not provided")
        ELSE IF cause = "NotBeforeError"
        THEN Thrown(call, "InvalidCredentialsException", "Invalid JWT: Not active yet (nbf claim)")
        ELSE IF cause = "TokenExpiredError"
        THEN Thrown(call, "InvalidCredentialsException", "Invalid JWT: Token expired")
        ELSE IF cause # ""
        THEN Thrown(call, "InvalidCredentialsException", "Invalid JWT: Invalid JWT signature")
        ELSE IF sub = NoSub
        THEN Thrown(call, "InvalidCredentialsException", "Invalid JWT payload: missing sub claim")
        ELSE IF entity = NoPrincipal
        THEN [Thrown(call, "IncorrectCredentialsException", "") EXCEPT !.id = sub]
        ELSE Returned(call, entity)

\* authenticate(held)
AuthenticateJwt ==
    /\ Len(events) < MaxEvents
    /\ LET call == [NoCall EXCEPT !.op = "authenticateJwt", !.token = held, !.at = now]
           result == authenticateJwt(call, held, store, now)
       IN  /\ last' = result
           /\ events' = authenticated(events, result)
    /\ UNCHANGED << now, store, hashes, calls, held, issued, req >>

\* authenticate(null) and authenticate(undefined): `typeof credentials` is not
\* "string", so the call goes to authenticateCredentials, whose first statement
\* reads `credentials.email` and raises the runtime's TypeError
AuthenticateAbsent(carrier) ==
    /\ last' = Thrown([NoCall EXCEPT !.op = "authenticate", !.carrier = carrier, !.at = now],
                      "TypeError", "Cannot read properties of " \o carrier)
    /\ UNCHANGED << now, store, events, hashes, calls, held, issued, req >>

\* ----------------------------------------------------- PasswordService calls
\* hash(password): the caller keeps the hash it is given
PasswordHash(c, password) ==
    /\ hashes < MaxHashes
    /\ hashes' = hashes + 1
    /\ calls' = [calls EXCEPT ![c] =
            [NoCall EXCEPT !.op = "hash", !.pc = "done", !.outcome = "ok", !.at = now,
                           !.password = password, !.plain = password,
                           !.stored = hash(password, hashes + 1)]]
    /\ UNCHANGED << now, store, events, last, held, issued, req >>

\* compare(password, hash) with a hash an earlier call returned
PasswordCompare(c, password) ==
    /\ calls[c].op = "hash"
    /\ LET call == [NoCall EXCEPT !.op = "compare", !.at = now, !.password = password,
                                  !.plain = calls[c].plain, !.stored = calls[c].stored]
           matches == compare(password, calls[c].stored)
       IN  last' = IF matches = "throws"
                   THEN Thrown(call, "Error", "data and hash arguments required")
                   ELSE [call EXCEPT !.pc = "done", !.outcome = "ok",
                                     !.answer = (matches = "true")]
    /\ UNCHANGED << now, store, events, hashes, calls, held, issued, req >>

\* -------------------------------------------------------------- TokenService
\* issue(claims, options): the client receives the token
TokenIssue(claims, options) ==
    /\ LET token == jwtSign(claims, Secret, expiresInOrDefault(options), now)
           decoded == jwtDecode(token)
           call == [NoCall EXCEPT !.op = "issue", !.claims = claims,
                                  !.options = options, !.at = now]
       IN  /\ held' = token
           /\ issued' = [claims |-> claims, options |-> options, at |-> now, token |-> token]
           /\ last' = [call EXCEPT !.pc = "done", !.outcome = "ok", !.token = token,
                                   !.payload = decoded.payload]
    /\ UNCHANGED << now, store, events, hashes, calls, req >>

\* verify(held)
TokenVerify ==
    /\ LET call == [NoCall EXCEPT !.op = "verify", !.token = held, !.at = now]
           cause == jwtVerifyError(held, Secret, now)
       IN  last' = IF cause # ""
                   THEN Thrown(call, "TokenFailedVerificationException", reason(cause))
                   ELSE [call EXCEPT !.pc = "done", !.outcome = "ok",
                                     !.payload = held.payload]
    /\ UNCHANGED << now, store, events, hashes, calls, held, issued, req >>

\* decode(held)
TokenDecode ==
    /\ LET call == [NoCall EXCEPT !.op = "decode", !.token = held, !.at = now]
           decoded == jwtDecode(held)
       IN  last' = IF ~ decoded.ok
                   THEN Thrown(call, "TokenMalformedException", "")
                   ELSE [call EXCEPT !.pc = "done", !.outcome = "ok",
                                     !.payload = decoded.payload]
    /\ UNCHANGED << now, store, events, hashes, calls, held, issued, req >>

\* the clock advances
Tick ==
    /\ now < MaxTime
    /\ now' = now + 1
    /\ UNCHANGED << store, events, hashes, calls, last, held, issued, req >>

\* ---------------------------------------------------------- MagicLinkService
\* send(email): the token of the mailed link reaches the client
\* mutant: the link issued with the configured session lifetime
MagicLinkSendConfiguredExpiry(email) ==
    /\ LET claims == [NoClaims EXCEPT !.email = email, !.aud = MAGIC_LINK_AUDIENCE]
           options == NoOptions
           token == jwtSign(claims, Secret, expiresInOrDefault(options), now)
       IN  /\ held' = token
           /\ issued' = [claims |-> claims, options |-> options, at |-> now, token |-> token]
           /\ last' = [NoCall EXCEPT !.op = "send", !.email = email, !.at = now,
                                     !.pc = "done", !.outcome = "ok", !.token = token]
    /\ UNCHANGED << now, store, events, hashes, calls, req >>

MagicLinkSend(email) ==
    /\ LET claims == [NoClaims EXCEPT !.email = email, !.aud = MAGIC_LINK_AUDIENCE]
           options == [given |-> TRUE, expiresIn |-> MagicLinkExpiresIn]
           token == jwtSign(claims, Secret, expiresInOrDefault(options), now)
       IN  /\ held' = token
           /\ issued' = [claims |-> claims, options |-> options, at |-> now, token |-> token]
           /\ last' = [NoCall EXCEPT !.op = "send", !.email = email, !.at = now,
                                     !.pc = "done", !.outcome = "ok", !.token = token]
    /\ UNCHANGED << now, store, events, hashes, calls, req >>

\* mutant: the email claim checked before the audience
invalidMagicLinkEmailFirst(payload) ==
    IF payload.email = NoEmail THEN "missing email claim"
    ELSE IF payload.aud # MAGIC_LINK_AUDIENCE THEN "invalid audience"
    ELSE ""

\* the claim checks of verify: the reason of InvalidMagicLinkTokenException, or ""
invalidMagicLink(payload) ==
    IF payload.aud # MAGIC_LINK_AUDIENCE THEN "invalid audience"
    ELSE IF payload.email = NoEmail THEN "missing email claim"
    ELSE ""

\* verify(held), up to the resolution of `await repo.findOne`
MagicLinkVerifyLookup(c) ==
    /\ Free(c)
    /\ Room
    /\ LET call == [NoCall EXCEPT !.op = "magicLinkVerify", !.token = held, !.at = now]
           cause == jwtVerifyError(held, Secret, now)
           payload == held.payload
           email == toLowerCase(payload.email)
           existing == findOneByEmail(store, email)
       IN  IF cause # ""
           THEN /\ calls' = [calls EXCEPT ![c] =
                        Thrown(call, "TokenFailedVerificationException", reason(cause))]
                /\ UNCHANGED events
           ELSE IF invalidMagicLink(payload) # ""
           THEN /\ calls' = [calls EXCEPT ![c] =
                        Thrown(call, "InvalidMagicLinkTokenException", invalidMagicLink(payload))]
                /\ UNCHANGED events
           ELSE IF existing # NoPrincipal
           THEN /\ calls' = [calls EXCEPT ![c] = Returned(call, existing)]
                /\ events' = emit(events, AUTHENTICATED, existing)
           ELSE /\ calls' = [calls EXCEPT ![c] = [call EXCEPT !.pc = "saving", !.email = email]]
                /\ UNCHANGED events
    /\ UNCHANGED << now, store, hashes, last, held, issued, req >>

\* mutant: the new principal announced as a sign-in, not as a registration
MagicLinkVerifySaveAsSignIn(c) ==
    /\ calls[c].pc = "saving"
    /\ calls[c].op = "magicLinkVerify"
    /\ LET call == calls[c]
           entity == saved(store, call.email, NoPassword)
       IN  IF violatesUnique(store, call.email)
           THEN /\ calls' = [calls EXCEPT ![c] = Thrown(call, "QueryFailedError", "")]
                /\ UNCHANGED << store, events >>
           ELSE /\ store' = store \cup { entity }
                /\ events' = emit(events, AUTHENTICATED, entity)
                /\ calls' = [calls EXCEPT ![c] = Returned(call, entity)]
    /\ UNCHANGED << now, hashes, last, held, issued, req >>

\* verify, from `repo.create({ email })` to the return
MagicLinkVerifySave(c) ==
    /\ calls[c].pc = "saving"
    /\ calls[c].op = "magicLinkVerify"
    /\ LET call == calls[c]
           entity == saved(store, call.email, NoPassword)
       IN  IF violatesUnique(store, call.email)
           THEN /\ calls' = [calls EXCEPT ![c] = Thrown(call, "QueryFailedError", "")]
                /\ UNCHANGED << store, events >>
           ELSE /\ store' = store \cup { entity }
                /\ events' = emit(events, REGISTERED, entity)
                /\ calls' = [calls EXCEPT ![c] =
                        [Returned(call, entity) EXCEPT !.isNewUser = TRUE]]
    /\ UNCHANGED << now, hashes, last, held, issued, req >>

\* ------------------------------------------------------- MagicLinkController
\* mutant: the session token issued without the principal's id
MagicLinkControllerVerifyNoSub(c) ==
    /\ calls[c].op = "magicLinkVerify"
    /\ calls[c].pc = "done"
    /\ calls[c].outcome = "ok"
    /\ LET entity == calls[c].principal
           claims == [NoClaims EXCEPT !.aud = SESSION_AUDIENCE]
           token == jwtSign(claims, Secret, expiresInOrDefault(NoOptions), now)
       IN  /\ held' = token
           /\ issued' = [claims |-> claims, options |-> NoOptions, at |-> now, token |-> token]
           /\ last' = [NoCall EXCEPT !.op = "issue", !.claims = claims, !.at = now,
                                     !.pc = "done", !.outcome = "ok", !.token = token,
                                     !.payload = token.payload,
                                     !.email = calls[c].token.payload.email,
                                     !.principal = entity,
                                     !.isNewUser = calls[c].isNewUser]
    /\ UNCHANGED << now, store, events, hashes, calls, req >>

\* MagicLinkController.verify, after magicLinkService.verify has returned:
\* tokenService.issue({ sub: entity.id, aud: SESSION_AUDIENCE }); the response
\* { token, user, isNewUser } reaches the client
MagicLinkControllerVerify(c) ==
    /\ calls[c].op = "magicLinkVerify"
    /\ calls[c].pc = "done"
    /\ calls[c].outcome = "ok"
    /\ LET entity == calls[c].principal
           claims == [NoClaims EXCEPT !.sub = entity.id, !.aud = SESSION_AUDIENCE]
           token == jwtSign(claims, Secret, expiresInOrDefault(NoOptions), now)
       IN  /\ held' = token
           /\ issued' = [claims |-> claims, options |-> NoOptions, at |-> now, token |-> token]
           /\ last' = [NoCall EXCEPT !.op = "issue", !.claims = claims, !.at = now,
                                     !.pc = "done", !.outcome = "ok", !.token = token,
                                     !.payload = token.payload,
                                     !.email = calls[c].token.payload.email,
                                     !.principal = entity,
                                     !.isNewUser = calls[c].isNewUser]
    /\ UNCHANGED << now, store, events, hashes, calls, req >>

\* ------------------------------------------------- AuthenticationMiddleware
\* An Authorization header: the first part of header.split(/\s+/) and the parts
\* after it
NoHeader == [present |-> FALSE, scheme |-> << >>, words |-> << >>]

Header(scheme, words) == [present |-> TRUE, scheme |-> scheme, words |-> words]

\* The Cookie header: what cookie.parse gives for "garmr.sid" ("" when the
\* cookie is not among those sent, or is empty)
NoCookie == [present |-> FALSE, sid |-> EmptyString]

Cookie(sid) == [present |-> TRUE, sid |-> sid]

\* A request in the pipeline: `attempts` lists the arguments of the calls of
\* AuthenticationService.authenticate made for it
\* `permissions` is req.principal.permissions; `route` is the metadata that
\* @RequiresPermission and @RequiresAnyPermission left on the operation (the
\* handler), `class` the metadata they left on its controller class
NoRoute == [all |-> UndefinedList, any |-> UndefinedList]

NoRequest == [stage |-> "none", authorization |-> NoHeader, cookie |-> NoCookie,
              principal |-> NoPrincipal, attempts |-> << >>, nexts |-> 0, earlier |-> "",
              permissions |-> UndefinedList, route |-> NoRoute, class |-> NoRoute,
              guard |-> "",
              error |-> "", message |-> "", permission |-> << >>]

\* a request arrives once the one before it has been answered, with the principal
\* an earlier middleware may have attached
Receive(header, cookie, principal) ==
    /\ req.stage \in { "none", "thrown", "allowed", "denied" }
    /\ req' = [NoRequest EXCEPT !.stage = "received", !.authorization = header,
                                !.cookie = cookie, !.principal = principal]
    /\ UNCHANGED << now, store, events, hashes, calls, last, held, issued >>

\* mutant: no try/catch around authenticate, so that its failure is thrown on
BearerMiddlewareRethrowing ==
    /\ req.stage = "received"
    /\ Len(events) < MaxEvents
    /\ LET header == req.authorization
           scheme == header.scheme
           token == IF Len(header.words) >= 1 THEN header.words[1] ELSE EmptyString
           result == authenticateJwt([NoCall EXCEPT !.op = "authenticateJwt",
                                        !.token = token, !.at = now], token, store, now)
       IN  IF ~ header.present
           THEN /\ req' = [req EXCEPT !.stage = "next", !.nexts = @ + 1]
                /\ UNCHANGED events
           ELSE IF toLowerCase(scheme) # <<"b", "e", "a", "r", "e", "r">>
           THEN /\ req' = [req EXCEPT !.stage = "thrown",
                                      !.error = "InvalidCredentialsException",
                                      !.message = "Invalid authentication scheme"]
                /\ UNCHANGED events
           ELSE IF token = EmptyString
           THEN /\ req' = [req EXCEPT !.stage = "thrown",
                                      !.error = "InvalidCredentialsException",
                                      !.message = "Invalid authentication header format"]
                /\ UNCHANGED events
           ELSE IF result.outcome = "error"
           THEN /\ req' = [req EXCEPT !.stage = "thrown", !.attempts = Append(@, token),
                                      !.error = result.error, !.message = result.message]
                /\ UNCHANGED events
           ELSE /\ req' = [req EXCEPT !.stage = "next", !.nexts = @ + 1, !.attempts = Append(@, token),
                                      !.principal = result.principal]
                /\ events' = authenticated(events, result)
    /\ UNCHANGED << now, store, hashes, calls, last, held, issued >>

\* AuthenticationMiddleware.use(req, res, next)
BearerMiddleware ==
    /\ req.stage = "received"
    /\ Len(events) < MaxEvents
    /\ LET header == req.authorization
           scheme == header.scheme
           token == IF Len(header.words) >= 1 THEN header.words[1] ELSE EmptyString
           result == authenticateJwt([NoCall EXCEPT !.op = "authenticateJwt",
                                        !.token = token, !.at = now], token, store, now)
       IN  IF ~ header.present
           THEN /\ req' = [req EXCEPT !.stage = "next", !.nexts = @ + 1]
                /\ UNCHANGED events
           ELSE IF toLowerCase(scheme) # <<"b", "e", "a", "r", "e", "r">>
           THEN /\ req' = [req EXCEPT !.stage = "thrown",
                                      !.error = "InvalidCredentialsException",
                                      !.message = "Invalid authentication scheme"]
                /\ UNCHANGED events
           ELSE IF token = EmptyString
           THEN /\ req' = [req EXCEPT !.stage = "thrown",
                                      !.error = "InvalidCredentialsException",
                                      !.message = "Invalid authentication header format"]
                /\ UNCHANGED events
           ELSE /\ req' = [req EXCEPT !.stage = "next", !.nexts = @ + 1,
                               !.attempts = Append(@, token),
                               !.principal = IF result.outcome = "ok"
                                             THEN result.principal ELSE @]
                /\ events' = authenticated(events, result)
    /\ UNCHANGED << now, store, hashes, calls, last, held, issued >>

\* mutant: the cookie consulted although a principal is attached
CookieMiddlewareOverwriting ==
    /\ req.stage = "next"
    /\ Len(events) < MaxEvents
    /\ LET sid == req.cookie.sid
           result == authenticateJwt([NoCall EXCEPT !.op = "authenticateJwt",
                                        !.token = sid, !.at = now], sid, store, now)
       IN  IF ~ req.cookie.present
           THEN /\ req' = [req EXCEPT !.stage = "routed", !.nexts = @ + 1]
                /\ UNCHANGED events
           ELSE IF sid = EmptyString
           THEN /\ req' = [req EXCEPT !.stage = "routed", !.nexts = @ + 1]
                /\ UNCHANGED events
           ELSE /\ req' = [req EXCEPT !.stage = "routed", !.nexts = @ + 1,
                               !.attempts = Append(@, sid),
                               !.principal = IF result.outcome = "ok"
                                             THEN result.principal ELSE @]
                /\ events' = authenticated(events, result)
    /\ UNCHANGED << now, store, hashes, calls, last, held, issued >>

\* CookieAuthenticationMiddleware.use(req, res, next), applied after the bearer
\* middleware has called next
CookieMiddleware ==
    /\ req.stage = "next"
    /\ Len(events) < MaxEvents
    /\ LET sid == req.cookie.sid
           result == authenticateJwt([NoCall EXCEPT !.op = "authenticateJwt",
                                        !.token = sid, !.at = now], sid, store, now)
       IN  IF req.principal # NoPrincipal
           THEN /\ req' = [req EXCEPT !.stage = "routed", !.nexts = @ + 1]
                /\ UNCHANGED events
           ELSE IF ~ req.cookie.present
           THEN /\ req' = [req EXCEPT !.stage = "routed", !.nexts = @ + 1]
                /\ UNCHANGED events
           ELSE IF sid = EmptyString
           THEN /\ req' = [req EXCEPT !.stage = "routed", !.nexts = @ + 1]
                /\ UNCHANGED events
           ELSE /\ req' = [req EXCEPT !.stage = "routed", !.nexts = @ + 1,
                               !.attempts = Append(@, sid),
                               !.principal = IF result.outcome = "ok"
                                             THEN result.principal ELSE @]
                /\ events' = authenticated(events, result)
    /\ UNCHANGED << now, store, hashes, calls, last, held, issued >>

\* Authenticated.canActivate(context), once the middlewares have run
AuthenticatedGuard ==
    /\ req.stage = "routed"
    /\ req' = IF req.principal = NoPrincipal
              THEN [req EXCEPT !.stage = "denied", !.guard = "Authenticated",
                               !.error = "UnauthorizedException"]
              ELSE [req EXCEPT !.stage = "allowed", !.guard = "Authenticated"]
    /\ UNCHANGED << now, store, events, hashes, calls, last, held, issued >>

\* mutant: the class's metadata taken before the handler's
getAllAndOverrideClassFirst(handler, class) ==
    IF class # UndefinedList THEN class ELSE handler

\* Reflector.getAllAndOverride(key, [context.getHandler(), context.getClass()]):
\* the first of the targets' metadata that is not undefined
getAllAndOverride(handler, class) ==
    IF handler # UndefinedList THEN handler ELSE class

requiredAll(request) == getAllAndOverride(request.route.all, request.class.all)

requiredAny(request) == getAllAndOverride(request.route.any, request.class.any)

\* the metadata is defined and not empty: `required?.length`
declared(required) == required # UndefinedList /\ Len(required) > 0

\* mutant: the permission checks made without the authentication check, so that
\* a missing principal surfaces when its permissions are read
RequiresPermissionGuardUnchecked ==
    /\ req.stage = "routed"
    /\ LET all == IF declared(requiredAll(req))
                  THEN requireAllPermissions(req.permissions, requiredAll(req)) ELSE NotDenied
           any == IF declared(requiredAny(req))
                  THEN requireAnyPermission(req.permissions, requiredAny(req)) ELSE NotDenied
           denied == IF all.thrown THEN all ELSE any
       IN  req' = IF req.principal = NoPrincipal
                     /\ (declared(requiredAll(req)) \/ declared(requiredAny(req)))
                  THEN [req EXCEPT !.stage = "denied", !.guard = "RequiresPermission",
                                   !.error = "TypeError"]
                  ELSE IF denied.thrown
                  THEN [req EXCEPT !.stage = "denied", !.guard = "RequiresPermission",
                                   !.error = "PermissionDeniedException",
                                   !.permission = denied.permission]
                  ELSE [req EXCEPT !.stage = "allowed", !.guard = "RequiresPermission"]
    /\ UNCHANGED << now, store, events, hashes, calls, last, held, issued >>

\* mutant: the OR-set checked before the AND-set
RequiresPermissionGuardAnyFirst ==
    /\ req.stage = "routed"
    /\ LET all == IF declared(requiredAll(req))
                  THEN requireAllPermissions(req.permissions, requiredAll(req)) ELSE NotDenied
           any == IF declared(requiredAny(req))
                  THEN requireAnyPermission(req.permissions, requiredAny(req)) ELSE NotDenied
           denied == IF any.thrown THEN any ELSE all
       IN  req' = IF req.principal = NoPrincipal
                  THEN [req EXCEPT !.stage = "denied", !.guard = "RequiresPermission",
                                   !.error = "UnauthorizedException"]
                  ELSE IF denied.thrown
                  THEN [req EXCEPT !.stage = "denied", !.guard = "RequiresPermission",
                                   !.error = "PermissionDeniedException",
                                   !.permission = denied.permission]
                  ELSE [req EXCEPT !.stage = "allowed", !.guard = "RequiresPermission"]
    /\ UNCHANGED << now, store, events, hashes, calls, last, held, issued >>

\* RequiresPermissionGuard.canActivate(context)
RequiresPermissionGuard ==
    /\ req.stage = "routed"
    /\ LET all == IF declared(requiredAll(req))
                  THEN requireAllPermissions(req.permissions, requiredAll(req)) ELSE NotDenied
           any == IF declared(requiredAny(req))
                  THEN requireAnyPermission(req.permissions, requiredAny(req)) ELSE NotDenied
           denied == IF all.thrown THEN all ELSE any
       IN  req' = IF req.principal = NoPrincipal
                  THEN [req EXCEPT !.stage = "denied", !.guard = "RequiresPermission",
                                   !.error = "UnauthorizedException"]
                  ELSE IF denied.thrown
                  THEN [req EXCEPT !.stage = "denied", !.guard = "RequiresPermission",
                                   !.error = "PermissionDeniedException",
                                   !.permission = denied.permission]
                  ELSE [req EXCEPT !.stage = "allowed", !.guard = "RequiresPermission"]
    /\ UNCHANGED << now, store, events, hashes, calls, last, held, issued >>

\* PermissionService.requireAllPermissions(req.principal, req.route.all), called
\* by the application on the attached principal
RequireAllPermissions ==
    /\ req.stage = "routed"
    /\ req.principal # NoPrincipal
    /\ req.route.all # UndefinedList
    /\ LET call == [NoCall EXCEPT !.op = "requireAllPermissions", !.at = now,
                                  !.permissions = req.permissions,
                                  !.required = req.route.all]
           result == requireAllPermissions(req.permissions, req.route.all)
       IN  last' = IF result.thrown
                   THEN [Thrown(call, "PermissionDeniedException", "")
                            EXCEPT !.permission = result.permission]
                   ELSE [call EXCEPT !.pc = "done", !.outcome = "ok"]
    /\ UNCHANGED << now, store, events, hashes, calls, held, issued, req >>

\* ------------------------------------------------------------ input domains
AudClaims == { NoAud, SESSION_AUDIENCE, MAGIC_LINK_AUDIENCE, "other" }

SubClaims == { NoSub, 1, 2 }

EmailClaims == { NoEmail, <<"A", "@", "x">>, <<"b", "@", "x">> }

CraftedPayloads ==
    [sub : SubClaims, aud : AudClaims, email : EmailClaims,
     iat : { NoTime }, nbf : { NoTime, StartTime + 2 }, exp : { NoTime, StartTime + 1 }]

\* signed with a key
SignedWith(payload, key) ==
    [parts |-> 3, alg |-> "HS256", payload |-> payload, sig |-> Sign("HS256", payload, key)]

\* header {"alg":"none"} and an empty signature part
Unsigned(payload) ==
    [parts |-> 3, alg |-> "none", payload |-> payload, sig |-> NoSignature]

\* header {"alg":"none"} in front of a signature the server made
AlgNone(payload) ==
    [parts |-> 3, alg |-> "none", payload |-> payload, sig |-> Sign("HS256", payload, Secret)]

\* the payload changed under a signature the server made for another subject
Tampered(payload) ==
    [parts |-> 3, alg |-> "HS256", payload |-> payload,
     sig |-> Sign("HS256", [payload EXCEPT !.sub = IF @ = 2 THEN 1 ELSE 2], Secret)]

CraftedTokens ==
    { SignedWith(p, Secret) : p \in CraftedPayloads }
    \cup { SignedWith(p, OtherSecret) : p \in CraftedPayloads }
    \cup { Unsigned(p) : p \in CraftedPayloads }
    \cup { Unparsable(n) : n \in 0 .. 2 }

\* and the forgeries only the signature check tells apart
ForgedTokens ==
    CraftedTokens
    \cup { AlgNone(p) : p \in CraftedPayloads }
    \cup { Tampered(p) : p \in CraftedPayloads }

IssueClaims ==
    [sub : { NoSub, 1 }, aud : { NoAud, SESSION_AUDIENCE, MAGIC_LINK_AUDIENCE },
     email : { NoEmail, <<"A", "@", "x">> },
     iat : { NoTime }, nbf : { NoTime }, exp : { NoTime }]

IssueOptions == { NoOptions } \cup [given : { TRUE }, expiresIn : -1 .. 2]

Schemes == { <<"B","e","a","r","e","r">>, <<"b","e","a","r","e","r">>,
             <<"B","E","A","R","E","R">>, <<"B","a","s","i","c">> }

\* the store after register({ email: "A@x", password: "p" })
RegisteredPrincipal == saved({}, toLowerCase(<<"A", "@", "x">>), hash("p", 1))

\* a principal created by a magic-link verify for b@x after that registration
LinkedPrincipal == saved({ RegisteredPrincipal }, <<"b", "@", "x">>, NoPassword)

\* session tokens a request may carry: for either principal, for no principal,
\* without sub, expiring, not yet active, under another key, and "notajwt"
SessionPayloads ==
    [sub : { NoSub, 1, 2, 3 }, aud : { SESSION_AUDIENCE }, email : { NoEmail },
     iat : { NoTime }, nbf : { NoTime }, exp : { NoTime }]
    \cup [sub : { 1 }, aud : { SESSION_AUDIENCE }, email : { NoEmail },
          iat : { NoTime }, nbf : { NoTime, StartTime + 2 }, exp : { NoTime, StartTime + 1 }]

SessionTokens ==
    { SignedWith(p, Secret) : p \in SessionPayloads }
    \cup { SignedWith([NoClaims EXCEPT !.sub = 1, !.aud = SESSION_AUDIENCE], OtherSecret),
           Unparsable(1) }

\* Authorization headers: none, "Bearer <token>", each scheme spelling, "Bearer",
\* "Bearer ", "   ", "Basic" and headers with a further part after the token
Headers ==
    { NoHeader }
    \cup { Header(<<"B", "e", "a", "r", "e", "r">>, << t >>) : t \in SessionTokens }
    \cup { Header(scheme, << SignedWith([NoClaims EXCEPT !.sub = 1, !.aud = SESSION_AUDIENCE],
                                        Secret) >>) : scheme \in Schemes }
    \cup { Header(<<"B", "e", "a", "r", "e", "r">>, << >>),
           Header(<<"B", "e", "a", "r", "e", "r">>, << EmptyString >>),
           Header(<< >>, << EmptyString >>),
           Header(<<"B", "a", "s", "i", "c">>, << >>) }
    \cup { Header(<<"B", "e", "a", "r", "e", "r">>, << t, Unparsable(1) >>) :
             t \in { SignedWith([NoClaims EXCEPT !.sub = 1, !.aud = SESSION_AUDIENCE], Secret),
                     SignedWith([NoClaims EXCEPT !.sub = 3, !.aud = SESSION_AUDIENCE], Secret) } }

Cookies == { NoCookie, Cookie(EmptyString) } \cup { Cookie(t) : t \in SessionTokens }

\* PermissionService.requireAnyPermission(req.principal, req.route.any)
RequireAnyPermission ==
    /\ req.stage = "routed"
    /\ req.principal # NoPrincipal
    /\ req.route.any # UndefinedList
    /\ LET call == [NoCall EXCEPT !.op = "requireAnyPermission", !.at = now,
                                  !.permissions = req.permissions,
                                  !.required = req.route.any]
           result == requireAnyPermission(req.permissions, req.route.any)
       IN  last' = IF result.thrown
                   THEN [Thrown(call, "PermissionDeniedException", "")
                            EXCEPT !.permission = result.permission]
                   ELSE [call EXCEPT !.pc = "done", !.outcome = "ok"]
    /\ UNCHANGED << now, store, events, hashes, calls, held, issued, req >>

\* PermissionService.hasAllPermissions(req.principal, req.route.all)
HasAllPermissions ==
    /\ req.stage = "routed"
    /\ req.principal # NoPrincipal
    /\ req.route.all # UndefinedList
    /\ last' = [NoCall EXCEPT !.op = "hasAllPermissions", !.at = now,
                              !.permissions = req.permissions, !.required = req.route.all,
                              !.pc = "done", !.outcome = "ok",
                              !.answer = hasAllPermissions(req.permissions, req.route.all)]
    /\ UNCHANGED << now, store, events, hashes, calls, held, issued, req >>

\* PermissionService.hasAnyPermission(req.principal, req.route.any)
HasAnyPermission ==
    /\ req.stage = "routed"
    /\ req.principal # NoPrincipal
    /\ req.route.any # UndefinedList
    /\ last' = [NoCall EXCEPT !.op = "hasAnyPermission", !.at = now,
                              !.permissions = req.permissions, !.required = req.route.any,
                              !.pc = "done", !.outcome = "ok",
                              !.answer = hasAnyPermission(req.permissions, req.route.any)]
    /\ UNCHANGED << now, store, events, hashes, calls, held, issued, req >>

\* PermissionService.hasPermission(req.principal, permission)
HasPermission(permission) ==
    /\ req.stage = "routed"
    /\ req.principal # NoPrincipal
    /\ last' = [NoCall EXCEPT !.op = "hasPermission", !.at = now,
                              !.permissions = req.permissions, !.permission = permission,
                              !.pc = "done", !.outcome = "ok",
                              !.answer = hasPermission(req.permissions, permission)]
    /\ UNCHANGED << now, store, events, hashes, calls, held, issued, req >>

\* the principal is given one more permission and repeats the request it had
\* an answer to; `earlier` keeps that answer
Grant(permission) ==
    /\ req.stage \in { "allowed", "denied" }
    /\ req.guard = "RequiresPermission"
    /\ req.principal # NoPrincipal
    /\ Len(permissionsOrEmpty(req.permissions)) < MaxHeld
    /\ req' = [req EXCEPT !.stage = "routed", !.guard = "", !.error = "",
                          !.permission = << >>, !.earlier = req.stage,
                          !.permissions = Append(permissionsOrEmpty(@), permission)]
    /\ UNCHANGED << now, store, events, hashes, calls, last, held, issued >>

\* permissions a principal may hold and an operation may require
HeldPermissions ==
    { << "*" >>, << "a", ":", "b" >>, << "b", ":", "a" >>, << "a", ":", "*" >>,
      << "*", ":", "b" >>, << "a" >> }

RequiredPermissions == { << "a", ":", "b" >>, << "b", ":", "a" >>, << "a" >> }

\* principal.permissions: absent, empty, or one or two permissions
PermissionLists ==
    { UndefinedList, << >> }
    \cup { << p >> : p \in HeldPermissions }
    \cup { << p, q >> : p \in { << "a", ":", "b" >>, << "a" >> },
                        q \in { << "b", ":", "a" >>, << "*", ":", "b" >>, << "*" >> } }

\* the argument list of a decorator: absent, empty, or one or two permissions
DeclaredLists ==
    { UndefinedList, << >> }
    \cup { << p >> : p \in RequiredPermissions }
    \cup { << p, q >> : p \in RequiredPermissions, q \in RequiredPermissions }

\* the characters of permission strings, and every string of up to MaxLength
Alphabet == { "a", "b", "*", ":" }

MaxLength == 3

Strings == UNION { [1 .. n -> Alphabet] : n \in 0 .. MaxLength }

\* a principal holding one permission, asked for one permission
MatchRequests ==
    { [NoRequest EXCEPT !.stage = "routed", !.nexts = 2, !.principal = RegisteredPrincipal,
                        !.permissions = << granted >>,
                        !.route = [all |-> << required >>, any |-> UndefinedList]] :
        granted \in Strings, required \in Strings }

\* requests on a handler and a controller class that both may carry declarations
ScopedLists ==
    { UndefinedList, << >>, << << "a", ":", "b" >> >>, << << "b", ":", "a" >> >>,
      << << "a" >> >> }

ScopedRequests ==
    { [NoRequest EXCEPT !.stage = "routed", !.nexts = 2, !.principal = RegisteredPrincipal,
                        !.permissions = ps,
                        !.route = [all |-> ha, any |-> hy],
                        !.class = [all |-> ca, any |-> cy]] :
        ps \in { << >>, << << "a", ":", "b" >> >>, << << "b", ":", "a" >> >>, << << "a" >> >>,
                 << << "a", ":", "b" >>, << "b", ":", "a" >> >> },
        ha \in ScopedLists, hy \in ScopedLists, ca \in ScopedLists, cy \in ScopedLists }

\* requests of a principal that will be granted more
GrantLists ==
    { UndefinedList, << >>, << << "a", ":", "b" >> >>, << << "a" >> >>,
      << << "a", ":", "b" >>, << "b", ":", "a" >> >> }

GrantRequests ==
    { [NoRequest EXCEPT !.stage = "routed", !.nexts = 2, !.principal = RegisteredPrincipal,
                        !.permissions = ps, !.route = [all |-> all, any |-> any]] :
        ps \in { UndefinedList, << >>, << << "a", ":", "b" >> >>, << << "a" >> >>,
                 << << "*", ":", "a" >> >> },
        all \in GrantLists, any \in GrantLists }

\* requests that have passed the middlewares, on a guarded operation
RoutedRequests ==
    { [NoRequest EXCEPT !.stage = "routed", !.nexts = 2, !.principal = RegisteredPrincipal,
                        !.permissions = ps, !.route = [all |-> all, any |-> any]] :
        ps \in PermissionLists, all \in DeclaredLists, any \in DeclaredLists }
    \cup { [NoRequest EXCEPT !.stage = "routed", !.nexts = 2, !.route = [all |-> all, any |-> any]] :
             all \in DeclaredLists, any \in DeclaredLists }

\* ------------------------------------------------------------ specifications
\* Registration, credential login and the magic-link flow
Init ==
    /\ now = StartTime
    /\ store = {}
    /\ events = << >>
    /\ hashes = 0
    /\ calls = [c \in Slots |-> NoCall]
    /\ last = NoCall
    /\ held = EmptyString
    /\ issued = NoIssue
    /\ req = NoRequest

Next ==
    \/ \E c \in Slots, email \in Emails : RegisterLookup(c, email, "p")
    \/ \E c \in Slots : RegisterSave(c)
    \/ \E email \in Emails, password \in Passwords : AuthenticateCredentials(email, password)
    \/ \E email \in Emails : MagicLinkSend(email)
    \/ \E c \in Slots : MagicLinkVerifyLookup(c)
    \/ \E c \in Slots : MagicLinkVerifySave(c)

Spec == Init /\ [][Next]_vars

\* The token service on issued and on crafted tokens, as the clock advances
InitToken ==
    /\ now = StartTime
    /\ store = {}
    /\ events = << >>
    /\ hashes = 0
    /\ calls = [c \in Slots |-> NoCall]
    /\ last = NoCall
    /\ held \in ForgedTokens
    /\ issued = NoIssue
    /\ req = NoRequest

NextToken ==
    \/ Tick
    \/ \E claims \in IssueClaims, options \in IssueOptions : TokenIssue(claims, options)
    \/ TokenVerify
    \/ TokenDecode

SpecToken == InitToken /\ [][NextToken]_vars

\* The consumers of a presented token, with one principal registered
\* what a caller without a credential passes
Carriers == { "null", "undefined" }

InitAuth ==
    /\ now = StartTime
    /\ store = { RegisteredPrincipal }
    /\ events = << [name |-> REGISTERED, principal |-> RegisteredPrincipal] >>
    /\ hashes = 1
    /\ calls = [c \in Slots |-> NoCall]
    /\ last = NoCall
    /\ held \in CraftedTokens
    /\ issued = NoIssue
    /\ req = NoRequest

NextAuth ==
    \/ Tick
    \/ AuthenticateJwt
    \/ \E carrier \in Carriers : AuthenticateAbsent(carrier)
    \/ TokenVerify
    \/ Receive(Header(<<"B", "e", "a", "r", "e", "r">>, << held >>), NoCookie, NoPrincipal)
    \/ BearerMiddleware
    \/ CookieMiddleware
    \/ AuthenticatedGuard

SpecAuth == InitAuth /\ [][NextAuth]_vars

\* Magic-link verification of a presented token, with one principal registered
NextMagic ==
    \/ Tick
    \/ \E c \in Slots : MagicLinkVerifyLookup(c)
    \/ \E c \in Slots : MagicLinkVerifySave(c)

SpecMagic == InitAuth /\ [][NextMagic]_vars

\* Requests through the bearer and cookie middlewares to the guard, with two
\* principals in the store
InitPipeline ==
    /\ now = StartTime
    /\ store = { RegisteredPrincipal, LinkedPrincipal }
    /\ events = << >>
    /\ hashes = 1
    /\ calls = [c \in Slots |-> NoCall]
    /\ last = NoCall
    /\ held = EmptyString
    /\ issued = NoIssue
    /\ req = NoRequest

NextPipeline ==
    \/ Tick
    \/ \E header \in Headers, cookie \in Cookies, principal \in { NoPrincipal, LinkedPrincipal } :
            Receive(header, cookie, principal)
    \/ BearerMiddleware
    \/ CookieMiddleware
    \/ AuthenticatedGuard

SpecPipeline == InitPipeline /\ [][NextPipeline]_vars

\* The guards and the permission service on a routed request
InitGuard ==
    /\ now = StartTime
    /\ store = { RegisteredPrincipal }
    /\ events = << [name |-> REGISTERED, principal |-> RegisteredPrincipal] >>
    /\ hashes = 1
    /\ calls = [c \in Slots |-> NoCall]
    /\ last = NoCall
    /\ held = EmptyString
    /\ issued = NoIssue
    /\ req \in RoutedRequests

NextGuard ==
    \/ AuthenticatedGuard
    \/ RequiresPermissionGuard
    \/ RequireAllPermissions
    \/ RequireAnyPermission
    \/ HasAllPermissions
    \/ HasAnyPermission
    \/ \E permission \in RequiredPermissions : HasPermission(permission)

SpecGuard == InitGuard /\ [][NextGuard]_vars

\* The permission matcher on every pair of strings
InitMatch ==
    /\ now = StartTime
    /\ store = { RegisteredPrincipal }
    /\ events = << [name |-> REGISTERED, principal |-> RegisteredPrincipal] >>
    /\ hashes = 1
    /\ calls = [c \in Slots |-> NoCall]
    /\ last = NoCall
    /\ held = EmptyString
    /\ issued = NoIssue
    /\ req \in MatchRequests

NextMatch ==
    \/ HasPermission(req.route.all[1])
    \/ HasAllPermissions

SpecMatch == InitMatch /\ [][NextMatch]_vars

\* Magic-link sign-in end to end, one call at a time: the link, its verification,
\* the session token and a request that presents it as a bearer token
NextSignIn ==
    \/ Tick
    \/ \E email \in { <<"A", "@", "x">>, <<"b", "@", "x">> } : MagicLinkSend(email)
    \/ MagicLinkVerifyLookup(1)
    \/ MagicLinkVerifySave(1)
    \/ MagicLinkControllerVerify(1)
    \/ /\ last.op = "issue"
       /\ Receive(Header(<<"B", "e", "a", "r", "e", "r">>, << held >>), NoCookie, NoPrincipal)
    \/ BearerMiddleware
    \/ CookieMiddleware
    \/ AuthenticatedGuard

SpecSignIn == Init /\ [][NextSignIn]_vars

\* PasswordService on its own
NextPassword ==
    \/ \E c \in Slots, password \in Passwords \cup LongPasswords : PasswordHash(c, password)
    \/ \E c \in Slots, password \in Passwords \cup LongPasswords : PasswordCompare(c, password)

SpecPassword == Init /\ [][NextPassword]_vars

\* Registration, then logins, with passwords of every length
NextLogin ==
    \/ \E password \in { "p", "ppa" } : RegisterLookup(1, <<"A", "@", "x">>, password)
    \/ RegisterSave(1)
    \/ \E email \in Emails, password \in Passwords \cup LongPasswords :
            AuthenticateCredentials(email, password)

SpecLogin == Init /\ [][NextLogin]_vars

\* Every call that stores a principal or emits an event, for two addresses
NextEvents ==
    \/ \E c \in Slots, email \in { <<"A", "@", "x">>, <<"a", "@", "x">> } :
            RegisterLookup(c, email, "p")
    \/ \E c \in Slots : RegisterSave(c)
    \/ \E password \in Passwords : AuthenticateCredentials(<<"A", "@", "x">>, password)
    \/ \E email \in { <<"a", "@", "x">>, <<"b", "@", "x">> } : MagicLinkSend(email)
    \/ \E c \in Slots : MagicLinkVerifyLookup(c)
    \/ \E c \in Slots : MagicLinkVerifySave(c)

SpecEvents == Init /\ [][NextEvents]_vars

\* Permission checks as a principal is granted more permissions
InitGrant ==
    /\ now = StartTime
    /\ store = { RegisteredPrincipal }
    /\ events = << [name |-> REGISTERED, principal |-> RegisteredPrincipal] >>
    /\ hashes = 1
    /\ calls = [c \in Slots |-> NoCall]
    /\ last = NoCall
    /\ held = EmptyString
    /\ issued = NoIssue
    /\ req \in GrantRequests

NextGrant ==
    \/ HasAllPermissions
    \/ HasAnyPermission
    \/ RequiresPermissionGuard
    \/ \E permission \in { << "a", ":", "*" >>, << "b", ":", "a" >>, << "a" >>, << "*" >> } :
            Grant(permission)

SpecGrant == InitGrant /\ [][NextGrant]_vars

\* authenticate on every kind of forged token as the clock advances
InitForged ==
    /\ now = StartTime
    /\ store = { RegisteredPrincipal }
    /\ events = << [name |-> REGISTERED, principal |-> RegisteredPrincipal] >>
    /\ hashes = 1
    /\ calls = [c \in Slots |-> NoCall]
    /\ last = NoCall
    /\ held \in ForgedTokens
    /\ issued = NoIssue
    /\ req = NoRequest

NextForged ==
    \/ Tick
    \/ AuthenticateJwt

SpecForged == InitForged /\ [][NextForged]_vars

\* The guard on operations whose class carries declarations too
InitScope ==
    /\ now = StartTime
    /\ store = { RegisteredPrincipal }
    /\ events = << [name |-> REGISTERED, principal |-> RegisteredPrincipal] >>
    /\ hashes = 1
    /\ calls = [c \in Slots |-> NoCall]
    /\ last = NoCall
    /\ held = EmptyString
    /\ issued = NoIssue
    /\ req \in ScopedRequests

NextScope ==
    \/ AuthenticatedGuard
    \/ RequiresPermissionGuard

SpecScope == InitScope /\ [][NextScope]_vars

\* The magic-link flow as the clock advances: links are sent, then verified
NextLink ==
    \/ Tick
    \/ \E email \in Emails : MagicLinkSend(email)
    \/ \E c \in Slots : MagicLinkVerifyLookup(c)
    \/ \E c \in Slots : MagicLinkVerifySave(c)

SpecLink == Init /\ [][NextLink]_vars

\* ================================================================== claims
\* What the claims call a token: independent of the verification modelled above
WellFormed(token) == token.parts = 3

\* signed by the server: HS256 under the configured secret over this very payload
Genuine(token) ==
    /\ WellFormed(token)
    /\ token.alg = "HS256"
    /\ token.sig.alg = "HS256"
    /\ token.sig.key = Secret
    /\ token.sig.over = token.payload

NotYetActive(token, t) == token.payload.nbf # NoTime /\ t < token.payload.nbf

Expired(token, t) == token.payload.exp # NoTime /\ t >= token.payload.exp

\* validly signed and within [notBefore, expiresAt) at time t
ValidAt(token, t) == Genuine(token) /\ ~ NotYetActive(token, t) /\ ~ Expired(token, t)

IsUnsigned(token) == WellFormed(token) /\ token.alg = "none" /\ token.sig = NoSignature

DoneCalls(op) == { c \in Slots : calls[c].op = op /\ calls[c].pc = "done" }

\* C1: authenticate(token) rejects every validly signed, unexpired token whose aud
\* is not "session" with InvalidCredentials "Invalid JWT: wrong audience", with or
\* without a sub claim, and returns no principal.
C1_WrongAudienceRejected ==
    (/\ last.op = "authenticateJwt"
     /\ ValidAt(last.token, last.at)
     /\ last.token.payload.aud # SESSION_AUDIENCE)
    => /\ last.outcome = "error"
       /\ last.error = "InvalidCredentialsException"
       /\ last.message = "Invalid JWT: wrong audience"
       /\ last.principal = NoPrincipal

\* C2: MagicLinkService.verify fails with InvalidMagicLinkToken "invalid audience"
\* for every validly signed, unexpired token whose aud is not "magic-link", also
\* when the email claim is missing, and that call neither creates a principal nor
\* emits an event.
C2_InvalidAudience ==
    [][\A c \in Slots :
         (/\ MagicLinkVerifyLookup(c)
          /\ ValidAt(held, now)
          /\ held.payload.aud # MAGIC_LINK_AUDIENCE)
         => /\ calls'[c].pc = "done"
            /\ calls'[c].outcome = "error"
            /\ calls'[c].error = "InvalidMagicLinkTokenException"
            /\ calls'[c].message = "invalid audience"
            /\ calls'[c].principal = NoPrincipal
            /\ store' = store
            /\ events' = events]_vars

C2_Witness ==
    \E c \in DoneCalls("magicLinkVerify") :
        /\ calls[c].message = "invalid audience"
        /\ ValidAt(calls[c].token, calls[c].at)
        /\ calls[c].token.payload.aud = SESSION_AUDIENCE
        /\ calls[c].token.payload.email = NoEmail

\* C3: an unsigned token (alg "none", empty signature) is never accepted: verify
\* fails with reason "invalid", authenticate fails with "Invalid JWT: Invalid JWT
\* signature", no event is emitted for it, and a request carrying it as a bearer
\* token reaches the guard with no principal, whatever its payload.
C3_UnsignedState ==
    /\ (last.op = "verify" /\ IsUnsigned(last.token))
         => /\ last.outcome = "error"
            /\ last.error = "TokenFailedVerificationException"
            /\ last.message = "invalid"
    /\ (last.op = "authenticateJwt" /\ IsUnsigned(last.token))
         => /\ last.outcome = "error"
            /\ last.error = "InvalidCredentialsException"
            /\ last.message = "Invalid JWT: Invalid JWT signature"
            /\ last.principal = NoPrincipal
    /\ (/\ req.stage \in { "next", "routed", "allowed", "denied" }
        /\ req.authorization.present
        /\ Len(req.authorization.words) = 1
        /\ IsUnsigned(req.authorization.words[1]))
         => /\ req.principal = NoPrincipal
            /\ req.stage # "allowed"

C3_UnsignedNeverAccepted ==
    /\ []C3_UnsignedState
    /\ [][IsUnsigned(held) => events' = events]_vars

C3_Witness ==
    /\ req.stage = "denied"
    /\ req.authorization.present
    /\ IsUnsigned(req.authorization.words[1])
    /\ req.authorization.words[1].payload.sub = RegisteredPrincipal.id
    /\ req.authorization.words[1].payload.aud = SESSION_AUDIENCE
    /\ last.op = "authenticateJwt"
    /\ IsUnsigned(last.token)

\* C4: verify fails with reason "expired" exactly when the failure is the expiry
\* of an otherwise valid token, with "invalid" for every other failure, and
\* returns the claims only when no check fails.
C4_ReasonOfFailure ==
    last.op = "verify" =>
        /\ last.outcome = "ok" <=> ValidAt(last.token, last.at)
        /\ last.outcome = "ok" => last.payload = last.token.payload
        /\ last.outcome = "error" =>
              /\ last.error = "TokenFailedVerificationException"
              /\ last.message \in { "expired", "invalid" }
              /\ last.message = "expired" <=>
                    /\ Genuine(last.token)
                    /\ ~ NotYetActive(last.token, last.at)
                    /\ Expired(last.token, last.at)

C4_Witness ==
    /\ last.op = "verify"
    /\ last.message = "invalid"
    /\ Genuine(last.token)
    /\ NotYetActive(last.token, last.at)
    /\ Expired(last.token, last.at)

\* the lifetime an issue call asks for
Lifetime(options) == IF options.given THEN options.expiresIn ELSE ConfiguredExpiresIn

\* C5: a token issued at t0 with lifetime L verifies, returning the issued claims,
\* at every t with t0 <= t < t0 + L and fails with reason "expired" at every
\* t >= t0 + L; with a negative lifetime it fails with "expired" at once.
C5_IssuedTokenLifetime ==
    (/\ last.op = "verify"
     /\ issued # NoIssue
     /\ last.token = issued.token)
    => LET t0 == issued.at
           exp == issued.at + Lifetime(issued.options)
       IN  /\ last.at >= t0
           /\ last.at < exp =>
                 /\ last.outcome = "ok"
                 /\ last.payload.sub = issued.claims.sub
                 /\ last.payload.aud = issued.claims.aud
                 /\ last.payload.email = issued.claims.email
           /\ last.at >= exp =>
                 /\ last.outcome = "error"
                 /\ last.error = "TokenFailedVerificationException"
                 /\ last.message = "expired"

C5_Witness ==
    /\ last.op = "verify"
    /\ issued # NoIssue
    /\ last.token = issued.token
    /\ Lifetime(issued.options) >= 1
    /\ last.at = issued.at + Lifetime(issued.options)
    /\ last.message = "expired"

\* C6: issue(claims, options) returns a token whose decoded payload holds every
\* supplied claim, iat = now, nbf = iat and exp = iat + options.expiresIn when
\* given, else iat + the configured expiresIn; the payload returned is the payload
\* of the returned token.
C6_IssuedPayload ==
    last.op = "issue" =>
        /\ last.outcome = "ok"
        /\ WellFormed(last.token)
        /\ last.token.payload.sub = last.claims.sub
        /\ last.token.payload.aud = last.claims.aud
        /\ last.token.payload.email = last.claims.email
        /\ last.token.payload.iat = last.at
        /\ last.token.payload.nbf = last.token.payload.iat
        /\ last.token.payload.exp = last.token.payload.iat + Lifetime(last.options)
        /\ last.payload = last.token.payload

C6_Witness ==
    /\ last.op = "issue"
    /\ last.options.given
    /\ last.options.expiresIn = 0
    /\ last.claims.sub = 1
    /\ last.claims.aud = SESSION_AUDIENCE
    /\ last.at > StartTime

\* Case, stated without the model's toLowerCase
SameLetter(a, b) ==
    \/ a = b
    \/ { a, b } \in { { "a", "A" }, { "b", "B" }, { "x", "X" }, { "e", "E" }, { "r", "R" } }

EqualIgnoringCase(e1, e2) ==
    /\ Len(e1) = Len(e2)
    /\ \A i \in 1 .. Len(e1) : SameLetter(e1[i], e2[i])

IsLowerCase(e) == \A i \in 1 .. Len(e) : e[i] \notin { "A", "B", "X" }

\* the principals whose email is the lowercase form of e
PrincipalsFor(e) == { x \in store : IsLowerCase(x.email) /\ EqualIgnoringCase(x.email, e) }

\* C7: authenticate({ email, password }) fails with IncorrectCredentials carrying
\* the email as supplied both when no principal has the lowercased email and when
\* the password does not match the stored hash; the two failures have the same
\* shape and neither emits an event.
C7_SameFailure ==
    [][\A e \in Emails, p \in Passwords :
         (/\ AuthenticateCredentials(e, p)
          /\ \/ PrincipalsFor(e) = {}
             \/ \E x \in PrincipalsFor(e) :
                    x.password # NoPassword /\ x.password.digest # p)
         => /\ last'.outcome = "error"
            /\ last'.error = "IncorrectCredentialsException"
            /\ last'.identifier = e
            /\ last'.message = ""
            /\ last'.id = NoSub
            /\ last'.principal = NoPrincipal
            /\ events' = events]_vars

C7_Witness ==
    /\ last.op = "authenticateCredentials"
    /\ last.error = "IncorrectCredentialsException"
    /\ last.email = <<"A", "@", "x">>
    /\ \E x \in PrincipalsFor(last.email) :
            x.password # NoPassword /\ x.password.digest # last.password

\* C8: once register has succeeded for e1, every later register with an e2 equal
\* to e1 ignoring case fails with EmailAlreadyExists carrying e2 as supplied,
\* leaves the store unchanged and emits no event.
C8_DuplicateRejected ==
    [][\A c \in Slots, e \in Emails, p \in Passwords :
         (/\ RegisterLookup(c, e, p)
          /\ \E x \in store : x.password # NoPassword /\ EqualIgnoringCase(x.email, e))
         => /\ calls'[c].pc = "done"
            /\ calls'[c].outcome = "error"
            /\ calls'[c].error = "EmailAlreadyExistsException"
            /\ calls'[c].identifier = e
            /\ store' = store
            /\ events' = events]_vars

C8_Witness ==
    \E c \in DoneCalls("register") :
        /\ calls[c].error = "EmailAlreadyExistsException"
        /\ calls[c].email = <<"A", "@", "x">>
        /\ calls[c].identifier = <<"A", "@", "x">>
        /\ \E x \in store : x.email = <<"a", "@", "x">> /\ x.password # NoPassword

\* C9: when two register calls for emails equal ignoring case have both passed
\* their lookup before either insert, the first to save succeeds, storing one
\* principal and emitting one event, and the other fails with EmailAlreadyExists,
\* storing and emitting nothing.
C9_RaceTranslated ==
    [][\A c, d \in Slots :
         (/\ c # d
          /\ RegisterSave(c)
          /\ calls[d].op = "register"
          /\ EqualIgnoringCase(calls[c].email, calls[d].email))
         => /\ calls[d].pc = "saving" =>
                  /\ calls'[c].outcome = "ok"
                  /\ store' = store \cup { calls'[c].principal }
                  /\ Cardinality(store') = Cardinality(store) + 1
                  /\ Len(events') = Len(events) + 1
            /\ (calls[d].pc = "done" /\ calls[d].outcome = "ok") =>
                  /\ calls'[c].outcome = "error"
                  /\ calls'[c].error = "EmailAlreadyExistsException"
                  /\ store' = store
                  /\ events' = events]_vars

\* C10: every principal in the store has an email equal to its own lowercase
\* form, and no two principals have emails equal ignoring case.
C10_LowercaseUnique ==
    /\ \A x \in store : IsLowerCase(x.email)
    /\ \A x, y \in store : EqualIgnoringCase(x.email, y.email) => x = y

C10_Witness ==
    /\ Cardinality(store) = 2
    /\ \E x \in store : x.password = NoPassword /\ x.email = <<"a", "@", "x">>
    /\ \E x \in store : x.password # NoPassword
    /\ \E c, d \in DoneCalls("magicLinkVerify") :
          /\ calls[c].token.payload.email = <<"A", "@", "x">>
          /\ calls[c].isNewUser
          /\ calls[d].error = "QueryFailedError"

\* the principals of a store whose email is the lowercase form of e
PrincipalsIn(st, e) == { x \in st : IsLowerCase(x.email) /\ EqualIgnoringCase(x.email, e) }

\* a validly signed, unexpired token with audience "magic-link" and an email
ValidMagicLink(token, t) ==
    /\ ValidAt(token, t)
    /\ token.payload.aud = "magic-link"
    /\ token.payload.email # NoEmail

\* C11: verify with a valid magic-link token for email e returns the principal
\* that has the lowercased e with isNewUser = false, emitting garmr.authenticated
\* only and leaving the store unchanged; when no principal has it, exactly one
\* principal with that email and no password is created, isNewUser = true and
\* garmr.registered only is emitted.
C11_NewOrExisting ==
    [][\A c \in Slots :
         /\ (/\ MagicLinkVerifyLookup(c)
             /\ ValidMagicLink(held, now)
             /\ PrincipalsFor(held.payload.email) # {})
            => /\ calls'[c].pc = "done"
               /\ calls'[c].outcome = "ok"
               /\ calls'[c].principal \in PrincipalsFor(held.payload.email)
               /\ calls'[c].isNewUser = FALSE
               /\ events' = Append(events, [name |-> "garmr.authenticated",
                                            principal |-> calls'[c].principal])
               /\ store' = store
         /\ (/\ MagicLinkVerifyLookup(c)
             /\ ValidMagicLink(held, now)
             /\ PrincipalsFor(held.payload.email) = {})
            => /\ calls'[c].pc = "saving"
               /\ store' = store
               /\ events' = events
         /\ (/\ MagicLinkVerifySave(c)
             /\ PrincipalsFor(calls[c].token.payload.email) = {})
            => /\ calls'[c].pc = "done"
               /\ calls'[c].outcome = "ok"
               /\ calls'[c].isNewUser = TRUE
               /\ calls'[c].principal \notin store
               /\ calls'[c].principal.password = NoPassword
               /\ store' = store \cup { calls'[c].principal }
               /\ PrincipalsIn(store', calls[c].token.payload.email) = { calls'[c].principal }
               /\ events' = Append(events, [name |-> "garmr.registered",
                                            principal |-> calls'[c].principal])]_vars

C11_Witness ==
    \E c, d \in DoneCalls("magicLinkVerify") :
        /\ calls[c].outcome = "ok" /\ calls[c].isNewUser
        /\ calls[c].token.payload.email = <<"b", "@", "x">>
        /\ calls[c].principal \in store
        /\ calls[d].outcome = "ok" /\ ~ calls[d].isNewUser
        /\ calls[d].token.payload.email = <<"A", "@", "x">>
        /\ calls[d].principal.email = <<"a", "@", "x">>
        /\ Cardinality(store) = 2

HasSubject(token) == \E x \in store : x.id = token.payload.sub

SubjectOf(token) == CHOOSE x \in store : x.id = token.payload.sub

Accepted(token, t) == ValidAt(token, t) /\ HasSubject(token)

IsBearer(scheme) == EqualIgnoringCase(scheme, <<"b", "e", "a", "r", "e", "r">>)

\* the bearer scheme followed by a token
WellFormedHeader(header) ==
    /\ header.present
    /\ IsBearer(header.scheme)
    /\ Len(header.words) >= 1
    /\ header.words[1] # EmptyString

\* C13: a failed or absent credential never blocks the pipeline: the bearer
\* middleware with a well-formed header whose token authenticate rejects, or with
\* no header, and the cookie middleware with a garmr.sid that authenticate
\* rejects, or with no cookie, do not throw, call next and leave req.principal
\* as it was.
C13_FailureDoesNotBlock ==
    [][/\ (/\ BearerMiddleware
           /\ \/ ~ req.authorization.present
              \/ /\ WellFormedHeader(req.authorization)
                 /\ ~ Accepted(req.authorization.words[1], now))
          => /\ req'.stage = "next"
             /\ req'.error = ""
             /\ req'.principal = req.principal
             /\ events' = events
       /\ (/\ CookieMiddleware
           /\ \/ ~ req.cookie.present
              \/ req.cookie.sid = EmptyString
              \/ ~ Accepted(req.cookie.sid, now))
          => /\ req'.stage = "routed"
             /\ req'.error = ""
             /\ req'.principal = req.principal
             /\ events' = events]_vars

C13_Witness ==
    /\ req.stage = "routed"
    /\ req.principal = NoPrincipal
    /\ Len(req.attempts) = 2
    /\ req.attempts[1] = req.authorization.words[1]
    /\ Genuine(req.attempts[1]) /\ ~ HasSubject(req.attempts[1])
    /\ req.attempts[2] = req.cookie.sid
    /\ Genuine(req.attempts[2]) /\ Expired(req.attempts[2], now)

\* C14: a present Authorization header whose scheme is not "bearer" ignoring
\* case, or with no token after the scheme, makes the bearer middleware throw
\* InvalidCredentials without calling next or authenticate and without touching
\* req.principal; "Bearer", "bearer" and "BEARER" are accepted as the scheme.
C14_MalformedHeaderThrows ==
    [][/\ (/\ BearerMiddleware
           /\ req.authorization.present
           /\ ~ WellFormedHeader(req.authorization))
          => /\ req'.stage = "thrown"
             /\ req'.error = "InvalidCredentialsException"
             /\ req'.attempts = req.attempts
             /\ req'.principal = req.principal
             /\ events' = events
       /\ (/\ BearerMiddleware
           /\ req.authorization.present
           /\ req.authorization.scheme \in { <<"B", "e", "a", "r", "e", "r">>,
                                             <<"b", "e", "a", "r", "e", "r">>,
                                             <<"B", "E", "A", "R", "E", "R">> }
           /\ Len(req.authorization.words) >= 1
           /\ req.authorization.words[1] # EmptyString)
          => /\ req'.stage = "next"
             /\ req'.attempts = Append(req.attempts, req.authorization.words[1])
       /\ req.stage = "thrown" => req'.stage \in { "thrown", "received" }]_vars

C14_Witness ==
    /\ req.stage = "thrown"
    /\ req.authorization.scheme = <<"B", "e", "a", "r", "e", "r">>
    /\ req.authorization.words = << EmptyString >>
    /\ req.message = "Invalid authentication header format"
    /\ req.attempts = << >>
    /\ req.principal = NoPrincipal

\* C15: an extraction step that finds req.principal set is skipped: the bearer
\* and the cookie middleware call next without invoking authenticate and leave
\* req.principal as it is, whatever header or cookie the request carries.
C15_AttachedPrincipalKept ==
    [][((BearerMiddleware \/ CookieMiddleware) /\ req.principal # NoPrincipal)
       => /\ req'.stage \in { "next", "routed" }
          /\ req'.attempts = req.attempts
          /\ req'.principal = req.principal
          /\ events' = events]_vars

\* C16: bearer first, cookie second, the cookie consulted only if the header step
\* neither attached a principal nor threw: a malformed header ends the request
\* whatever the cookie; a header token that is accepted attaches its principal
\* and the cookie is then not authenticated; after a rejected header token a
\* valid cookie attaches the cookie's principal.
C16_HeaderBeforeCookie ==
    [][/\ (CookieMiddleware /\ req.authorization.present) => WellFormedHeader(req.authorization)
       /\ (/\ BearerMiddleware
           /\ WellFormedHeader(req.authorization)
           /\ Accepted(req.authorization.words[1], now))
          => /\ req'.stage = "next"
             /\ req'.principal = SubjectOf(req.authorization.words[1])
       /\ (CookieMiddleware /\ req.principal # NoPrincipal)
          => /\ req'.stage = "routed"
             /\ req'.principal = req.principal
             /\ req'.attempts = req.attempts
             /\ events' = events
       /\ (/\ CookieMiddleware
           /\ req.principal = NoPrincipal
           /\ req.cookie.present
           /\ Accepted(req.cookie.sid, now))
          => /\ req'.stage = "routed"
             /\ req'.principal = SubjectOf(req.cookie.sid)
             /\ req'.attempts = Append(req.attempts, req.cookie.sid)]_vars

C16_Witness ==
    /\ req.stage = "routed"
    /\ WellFormedHeader(req.authorization)
    /\ req.cookie.present
    /\ Accepted(req.authorization.words[1], now)
    /\ Accepted(req.cookie.sid, now)
    /\ SubjectOf(req.authorization.words[1]) # SubjectOf(req.cookie.sid)
    /\ req.principal = SubjectOf(req.authorization.words[1])
    /\ req.attempts = << req.authorization.words[1] >>

\* C17: a header with a further whitespace-separated part after the token
\* ("Bearer a b") is rejected as malformed: the bearer middleware throws
\* InvalidCredentials and does not authenticate with the first token.
C17_ExactlyOneToken ==
    [][(/\ BearerMiddleware
        /\ req.authorization.present
        /\ Len(req.authorization.words) > 1)
       => /\ req'.stage = "thrown"
          /\ req'.error = "InvalidCredentialsException"
          /\ req'.attempts = req.attempts
          /\ req'.principal = req.principal]_vars

\* a decorator that names at least one permission
NonEmptyList(list) == list # UndefinedList /\ list # << >>

\* the first permission of a list, in its order, that the permissions do not give
IsFirstMissing(permission, permissions, required) ==
    \E k \in 1 .. Len(required) :
        /\ permission = required[k]
        /\ ~ hasPermission(permissions, required[k])
        /\ \A j \in 1 .. (k - 1) : hasPermission(permissions, required[j])

\* C18: with no principal attached, the Authenticated guard and the
\* RequiresPermissionGuard both throw UnauthorizedException whatever AND-set and
\* OR-set are declared, never PermissionDenied; the Authenticated guard allows
\* every request with a principal.
C18_UnauthenticatedIs401 ==
    [][/\ ((AuthenticatedGuard \/ RequiresPermissionGuard) /\ req.principal = NoPrincipal)
          => /\ req'.stage = "denied"
             /\ req'.error = "UnauthorizedException"
             /\ req'.permission = << >>
       /\ (AuthenticatedGuard /\ req.principal # NoPrincipal)
          => /\ req'.stage = "allowed"
             /\ req'.error = ""]_vars

C18_Witness ==
    /\ req.stage = "denied"
    /\ req.guard = "RequiresPermission"
    /\ req.error = "UnauthorizedException"
    /\ req.principal = NoPrincipal
    /\ NonEmptyList(req.route.all) /\ Len(req.route.all) = 2
    /\ NonEmptyList(req.route.any)

\* C19: with both an AND-set and an OR-set declared, the AND-set is evaluated
\* first: a missing AND permission is the one PermissionDenied names, also when
\* the OR-set is unsatisfied; the joined OR list is named only when every AND
\* permission is held; the call is allowed only when both sets are satisfied.
C19_AllBeforeAny ==
    [][(/\ RequiresPermissionGuard
        /\ req.principal # NoPrincipal
        /\ NonEmptyList(req.route.all)
        /\ NonEmptyList(req.route.any))
       => IF ~ hasAllPermissions(req.permissions, req.route.all)
          THEN /\ req'.stage = "denied"
               /\ req'.error = "PermissionDeniedException"
               /\ IsFirstMissing(req'.permission, req.permissions, req.route.all)
          ELSE IF ~ hasAnyPermission(req.permissions, req.route.any)
          THEN /\ req'.stage = "denied"
               /\ req'.error = "PermissionDeniedException"
               /\ req'.permission = join(req.route.any)
          ELSE /\ req'.stage = "allowed"
               /\ req'.error = ""]_vars

C19_Witness ==
    /\ req.stage = "denied"
    /\ req.guard = "RequiresPermission"
    /\ req.error = "PermissionDeniedException"
    /\ NonEmptyList(req.route.all)
    /\ NonEmptyList(req.route.any)
    /\ ~ hasAllPermissions(req.permissions, req.route.all)
    /\ ~ hasAnyPermission(req.permissions, req.route.any)
    /\ req.permission = << "b", ":", "a" >>
    /\ req.route.all = << << "a", ":", "b" >>, << "b", ":", "a" >> >>
    /\ req.route.any = << << "a" >> >>

\* C20: requireAllPermissions throws PermissionDenied carrying the first
\* permission of required, in declared order, that the principal does not hold,
\* and completes without throwing exactly when hasAllPermissions is true.
C20_FirstMissingPermission ==
    last.op = "requireAllPermissions" =>
        /\ last.outcome = "ok" <=> hasAllPermissions(last.permissions, last.required)
        /\ last.outcome # "ok" =>
              /\ last.outcome = "error"
              /\ last.error = "PermissionDeniedException"
              /\ IsFirstMissing(last.permission, last.permissions, last.required)

C20_Witness ==
    /\ last.op = "requireAllPermissions"
    /\ last.outcome = "error"
    /\ last.required = << << "a", ":", "b" >>, << "b", ":", "a" >> >>
    /\ last.permissions = << << "a" >> >>
    /\ last.permission = << "a", ":", "b" >>

\* " | " between two alternatives, written out
Bar == << " ", "|", " " >>

\* the alternatives of a list of at most three, joined in declared order
Alternatives(required) ==
    CASE Len(required) = 0 -> << >>
      [] Len(required) = 1 -> required[1]
      [] Len(required) = 2 -> required[1] \o Bar \o required[2]
      [] OTHER -> required[1] \o Bar \o required[2] \o Bar \o required[3]

\* C21: requireAnyPermission throws exactly when hasAnyPermission is false, and
\* the PermissionDenied it throws carries all the required alternatives joined by
\* " | " in declared order.
C21_AnyDeniedNamesAll ==
    last.op = "requireAnyPermission" =>
        /\ last.outcome = "error" <=> ~ hasAnyPermission(last.permissions, last.required)
        /\ last.outcome # "error" => last.outcome = "ok"
        /\ last.outcome = "error" =>
              /\ last.error = "PermissionDeniedException"
              /\ last.permission = Alternatives(last.required)

C21_Witness ==
    /\ last.op = "requireAnyPermission"
    /\ last.outcome = "error"
    /\ last.required = << << "a" >>, << "b", ":", "a" >> >>
    /\ last.permissions = << << "*", ":", "b" >> >>
    /\ last.permission = << "a", " ", "|", " ", "b", ":", "a" >>

\* C22: for every principal, with any, empty or undefined permissions,
\* hasAllPermissions(principal, []) is true and hasAnyPermission(principal, [])
\* is false.
C22_EmptyRequirement ==
    /\ (last.op = "hasAllPermissions" /\ last.required = << >>) => last.answer = TRUE
    /\ (last.op = "hasAnyPermission" /\ last.required = << >>) => last.answer = FALSE

C22_Witness ==
    /\ last.op = "hasAnyPermission"
    /\ last.required = << >>
    /\ last.permissions = << << "*" >> >>
    /\ last.answer = FALSE

\* names of actions and resources: neither a wildcard nor a separator
Names == { "a", "b" }

\* C23: single-position wildcards match only in their own position: a held
\* "*:r" satisfies a required "a:r'" iff r = r', and a held "a:*" satisfies a
\* required "a':r'" iff a = a'.
C23_WildcardPosition ==
    (last.op = "hasPermission" /\ Len(last.permissions) = 1) =>
        \A x, y, z \in Names :
            /\ (/\ last.permissions[1] = << "*", ":", x >>
                /\ last.permission = << y, ":", z >>)
               => (last.answer <=> x = z)
            /\ (/\ last.permissions[1] = << x, ":", "*" >>
                /\ last.permission = << y, ":", z >>)
               => (last.answer <=> x = y)

C23_Witness ==
    /\ last.op = "hasPermission"
    /\ last.permissions = << << "*", ":", "a" >> >>
    /\ last.permission = << "b", ":", "b" >>
    /\ last.answer = FALSE

\* C24: a required permission with no resource part is satisfied only by a held
\* permission exactly equal to it or by "*"; no "*:x", "x:*" or "admin:x"
\* satisfies it.
C24_BareRequirement ==
    (/\ last.op = "hasPermission"
     /\ Len(last.permissions) = 1
     /\ \A i \in 1 .. Len(last.permission) : last.permission[i] # ":")
    => (last.answer <=> \/ last.permissions[1] = last.permission
                        \/ last.permissions[1] = << "*" >>)

C24_Witness ==
    /\ last.op = "hasPermission"
    /\ last.permissions = << << "a", ":", "*" >> >>
    /\ last.permission = << "a" >>
    /\ last.answer = FALSE

\* the superuser wildcard is among the permissions held
HoldsStar(permissions) ==
    \E i \in 1 .. Len(permissions) : permissions[i] = << "*" >>

\* C25: a principal holding "*" is a superuser: hasPermission is true for every
\* required permission, with or without a resource part, and the
\* RequiresPermissionGuard allows it on every operation whose AND-set and OR-set
\* are not empty, whatever they contain.
C25_SuperuserState ==
    (last.op = "hasPermission" /\ HoldsStar(last.permissions)) => last.answer = TRUE

C25_Superuser ==
    /\ []C25_SuperuserState
    /\ [][(/\ RequiresPermissionGuard
           /\ req.principal # NoPrincipal
           /\ HoldsStar(req.permissions)
           /\ req.route.all # << >>
           /\ req.route.any # << >>)
          => /\ req'.stage = "allowed"
             /\ req'.error = ""]_vars

C25_Witness ==
    /\ req.stage = "allowed"
    /\ req.guard = "RequiresPermission"
    /\ req.permissions = << << "a" >>, << "*" >> >>
    /\ req.route.all = << << "a", ":", "b" >>, << "b", ":", "a" >> >>
    /\ req.route.any = << << "b", ":", "a" >> >>
    /\ last.op = "hasPermission"
    /\ last.permission = << "b", ":", "a" >>
    /\ last.answer = TRUE

\* the declaration in force for a key: the handler's when it has one, else the
\* class's
InForce(handler, class) ==
    CASE handler # UndefinedList -> handler
      [] OTHER -> class

\* what enforcing an AND-set and an OR-set on a request comes to
Enforced(request, permissions, all, any) ==
    IF NonEmptyList(all) /\ ~ hasAllPermissions(permissions, all)
    THEN /\ request.stage = "denied"
         /\ request.error = "PermissionDeniedException"
         /\ IsFirstMissing(request.permission, permissions, all)
    ELSE IF NonEmptyList(any) /\ ~ hasAnyPermission(permissions, any)
    THEN /\ request.stage = "denied"
         /\ request.error = "PermissionDeniedException"
         /\ request.permission = Alternatives(any)
    ELSE /\ request.stage = "allowed"
         /\ request.error = ""

\* C26: declarations are resolved per key, the handler's overriding the class's:
\* when the handler declares an AND-set (or OR-set) the guard enforces that set
\* only and ignores the class's for that key, and a class-level set is enforced
\* on a handler that declares none for that key.
C26_HandlerOverridesClass ==
    [][(RequiresPermissionGuard /\ req.principal # NoPrincipal)
       => Enforced(req', req.permissions,
                   InForce(req.route.all, req.class.all),
                   InForce(req.route.any, req.class.any))]_vars

C26_Witness ==
    /\ req.stage = "allowed"
    /\ req.guard = "RequiresPermission"
    /\ req.permissions = << << "a", ":", "b" >> >>
    /\ req.route.all = << << "a", ":", "b" >> >>
    /\ req.class.all = << << "b", ":", "a" >> >>
    /\ req.route.any = UndefinedList
    /\ req.class.any = << << "a", ":", "b" >> >>

\* C27: for a validly signed, unexpired session token, authenticate fails with
\* InvalidCredentials "Invalid JWT payload: missing sub claim" when sub is absent,
\* fails with IncorrectCredentials naming the sub when no principal has that id,
\* and otherwise returns that principal and emits exactly one garmr.authenticated
\* event carrying it; a failing call emits no event.
C27_SubjectOfValidToken ==
    [][(/\ AuthenticateJwt
        /\ ValidAt(held, now)
        /\ held.payload.aud = SESSION_AUDIENCE)
       => /\ last'.op = "authenticateJwt"
          /\ last'.token = held
          /\ IF held.payload.sub = NoSub
             THEN /\ last'.outcome = "error"
                  /\ last'.error = "InvalidCredentialsException"
                  /\ last'.message = "Invalid JWT payload: missing sub claim"
                  /\ last'.principal = NoPrincipal
                  /\ events' = events
             ELSE IF ~ HasSubject(held)
             THEN /\ last'.outcome = "error"
                  /\ last'.error = "IncorrectCredentialsException"
                  /\ last'.id = held.payload.sub
                  /\ last'.principal = NoPrincipal
                  /\ events' = events
             ELSE /\ last'.outcome = "ok"
                  /\ last'.principal = SubjectOf(held)
                  /\ events' = events \o << [name |-> "garmr.authenticated",
                                             principal |-> SubjectOf(held)] >>
          /\ store' = store]_vars

C27_Witness ==
    /\ last.op = "authenticateJwt"
    /\ last.outcome = "ok"
    /\ ValidAt(last.token, last.at)
    /\ last.token.payload.aud = SESSION_AUDIENCE
    /\ last.principal = RegisteredPrincipal
    /\ Len(events) = 2
    /\ events[2] = [name |-> "garmr.authenticated", principal |-> RegisteredPrincipal]

\* C28: authenticate maps every failure of the token's verification to
\* InvalidCredentials with the message of its cause: "Invalid JWT: Not active yet
\* (nbf claim)" for a genuine token whose notBefore is in the future, "Invalid
\* JWT: Token expired" for a genuine, active token whose exp has passed, and
\* "Invalid JWT: Invalid JWT signature" for every other failure (wrong secret,
\* tampering, no signature, malformed token).
C28_CauseSpecificMessage ==
    (/\ last.op = "authenticateJwt"
     /\ last.token # EmptyString
     /\ ~ ValidAt(last.token, last.at))
    => /\ last.outcome = "error"
       /\ last.error = "InvalidCredentialsException"
       /\ last.principal = NoPrincipal
       /\ last.message =
            IF ~ Genuine(last.token) THEN "Invalid JWT: Invalid JWT signature"
            ELSE IF NotYetActive(last.token, last.at)
            THEN "Invalid JWT: Not active yet (nbf claim)"
            ELSE "Invalid JWT: Token expired"

C28_Witness ==
    /\ last.op = "authenticateJwt"
    /\ last.message = "Invalid JWT: Token expired"
    /\ Genuine(last.token)
    /\ Expired(last.token, last.at)
    /\ last.token.payload.nbf # NoTime
    /\ ~ NotYetActive(last.token, last.at)

\* the failures the library declares
TypedErrors ==
    { "InvalidCredentialsException", "IncorrectCredentialsException",
      "EmailAlreadyExistsException", "TokenFailedVerificationException",
      "InvalidMagicLinkTokenException", "PermissionDeniedException" }

\* C29: authenticate with a null or undefined carrier fails with the typed
\* InvalidCredentials failure, with the empty string it fails with
\* InvalidCredentials "Invalid JWT: JWT not provided", and it never raises an
\* untyped error.
C29_AbsentCarrierTyped ==
    /\ (last.op = "authenticate" /\ last.carrier \in Carriers)
         => /\ last.outcome = "error"
            /\ last.error = "InvalidCredentialsException"
    /\ (last.op = "authenticateJwt" /\ last.token = EmptyString)
         => /\ last.outcome = "error"
            /\ last.error = "InvalidCredentialsException"
            /\ last.message = "Invalid JWT: JWT not provided"
    /\ (last.op \in { "authenticate", "authenticateJwt" } /\ last.outcome = "error")
         => last.error \in TypedErrors

\* C30: send(email) issues a token with the claims {email, aud: "magic-link"}
\* and exp = iat + 15 minutes, whatever the configured expiresIn, hands it to the
\* mail transport addressed to that email, and neither touches a principal nor
\* emits an event.
C30_SendIssuesShortLivedLink ==
    [][\A email \in Emails :
         MagicLinkSend(email)
         => /\ Genuine(held')
            /\ held'.payload.email = email
            /\ held'.payload.aud = "magic-link"
            /\ held'.payload.sub = NoSub
            /\ held'.payload.iat = now
            /\ held'.payload.nbf = held'.payload.iat
            /\ held'.payload.exp = held'.payload.iat + MagicLinkExpiresIn
            /\ MagicLinkExpiresIn # ConfiguredExpiresIn
            /\ last'.op = "send"
            /\ last'.outcome = "ok"
            /\ last'.email = email
            /\ last'.token = held'
            /\ store' = store
            /\ events' = events
            /\ calls' = calls]_vars

C30_Witness ==
    /\ last.op = "send"
    /\ last.email # NoEmail
    /\ last.token = held
    /\ held.payload.email = last.email
    /\ held.payload.exp = last.at + MagicLinkExpiresIn
    /\ last.at > StartTime
    /\ store # {}

\* the last call was the controller's issue of a session token after a verify
SignedIn == last.op = "issue" /\ last.principal # NoPrincipal

\* the request carries that session token as its bearer token
PresentsSessionToken ==
    /\ req.authorization.present
    /\ EqualIgnoringCase(req.authorization.scheme, <<"b", "e", "a", "r", "e", "r">>)
    /\ req.authorization.words = << last.token >>

\* C31: after a magic-link verify succeeds for an email and the caller issues
\* {sub: entity.id, aud: "session"}, a request presenting that token as a bearer
\* token before its expiry gets the same principal attached (same id, the
\* lowercase form of the email) and is allowed by the Authenticated guard.
C31_SignInRoundTrip ==
    (/\ SignedIn
     /\ PresentsSessionToken
     /\ now < last.at + ConfiguredExpiresIn)
    => /\ req.stage # "thrown"
       /\ req.stage \in { "next", "routed", "allowed", "denied" }
            => /\ req.principal = last.principal
               /\ req.principal \in store
               /\ req.principal.id = last.token.payload.sub
               /\ IsLowerCase(req.principal.email)
               /\ EqualIgnoringCase(req.principal.email, last.email)
       /\ req.stage # "denied"

C31_Witness ==
    /\ SignedIn
    /\ PresentsSessionToken
    /\ req.stage = "allowed"
    /\ now > last.at
    /\ now < last.at + ConfiguredExpiresIn
    /\ last.isNewUser
    /\ ~ IsLowerCase(last.email)

\* the register calls that stored the principal now found under e
RegistrationsOf(e) ==
    { c \in DoneCalls("register") :
        /\ calls[c].outcome = "ok"
        /\ calls[c].principal \in PrincipalsFor(e) }

\* C32: after register({email, password}) succeeds the stored principal's
\* password is a hash under a salt of its own, and authenticate({email: e',
\* password}) returns that principal for every e' equal to email ignoring case,
\* while any other password fails.
C32_RegisterThenLogin ==
    [][/\ \A c \in Slots :
            (RegisterSave(c) /\ calls'[c].outcome = "ok")
            => LET x == calls'[c].principal
               IN  /\ x \in store'
                   /\ x \notin store
                   /\ EqualIgnoringCase(x.email, calls[c].email)
                   /\ x.password # NoPassword
                   /\ x.password.salt >= 1
                   /\ \A y \in store : y.password.salt # x.password.salt
       /\ \A e \in Emails, p \in Passwords \cup LongPasswords, c \in Slots :
            (AuthenticateCredentials(e, p) /\ c \in RegistrationsOf(e))
            => IF p = calls[c].password
               THEN /\ last'.outcome = "ok"
                    /\ last'.principal = calls[c].principal
                    /\ store' = store
               ELSE /\ last'.outcome = "error"
                    /\ last'.error = "IncorrectCredentialsException"
                    /\ last'.principal = NoPrincipal
                    /\ store' = store]_vars

\* C33: for all passwords p and q, compare(p, hash(p)) is true, compare(q,
\* hash(p)) is false when q differs from p, and two separate hash calls return
\* different hashes (a fresh salt each) that both compare true against p.
C33_CompareExact ==
    /\ last.op = "compare"
         => /\ last.outcome = "ok"
            /\ last.answer <=> (last.password = last.plain)
    /\ \A c, d \in Slots :
         (c # d /\ calls[c].op = "hash" /\ calls[d].op = "hash")
         => calls[c].stored # calls[d].stored

\* what authenticate returns for a token at a time: the principal, when it does
ReturnedFor(token, t) ==
    IF Accepted(token, t) THEN SubjectOf(token) ELSE NoPrincipal

\* a middleware step: next called once and nothing thrown, or InvalidCredentials
\* thrown and next not called; the principal as before, or the one authenticate
\* returned for the token the step extracted
Extraction(before, after, stage) ==
    /\ \/ /\ after.stage = stage
          /\ after.nexts = before.nexts + 1
          /\ after.error = ""
       \/ /\ after.stage = "thrown"
          /\ after.nexts = before.nexts
          /\ after.error = "InvalidCredentialsException"
          /\ after.attempts = before.attempts
    /\ \/ after.principal = before.principal
       \/ /\ Len(after.attempts) = Len(before.attempts) + 1
          /\ after.principal # NoPrincipal
          /\ after.principal = ReturnedFor(after.attempts[Len(after.attempts)], now)
    /\ after.stage = "thrown" => after.principal = before.principal

\* C34: each of the bearer and cookie middlewares either calls next exactly once
\* without throwing or throws InvalidCredentials without calling next, and
\* leaves req.principal unchanged or equal to what authenticate returned for the
\* extracted token, so a request ends extraction authenticated, unauthenticated
\* or rejected.
C34_ExtractionOutcome ==
    [][/\ BearerMiddleware => Extraction(req, req', "next")
       /\ CookieMiddleware => Extraction(req, req', "routed")]_vars

C34_Witness ==
    /\ req.stage = "routed"
    /\ req.nexts = 2
    /\ Len(req.attempts) = 2
    /\ ~ Accepted(req.attempts[1], now)
    /\ req.principal # NoPrincipal
    /\ req.principal = ReturnedFor(req.attempts[2], now)

\* the positions of the events of a name
EventsNamed(evs, name) == { i \in 1 .. Len(evs) : evs[i].name = name }

\* a register or a magic-link verify stores a principal in this step
Creates ==
    \/ \E c \in Slots : RegisterSave(c) /\ calls'[c].outcome = "ok"
    \/ \E c \in Slots : MagicLinkVerifySave(c) /\ calls'[c].outcome = "ok"

\* an authenticate succeeds, or a magic-link verify finds its principal, in this
\* step
SignsIn ==
    \/ \E e \in Emails, p \in Passwords : AuthenticateCredentials(e, p) /\ last'.outcome = "ok"
    \/ \E c \in Slots : MagicLinkVerifyLookup(c) /\ calls'[c].outcome = "ok"

C35_EventsState ==
    /\ Cardinality(EventsNamed(events, "garmr.registered")) = Cardinality(store)
    /\ \A x \in store :
         \E i \in EventsNamed(events, "garmr.registered") : events[i].principal = x
    /\ \A i \in 1 .. Len(events) : events[i].principal \in store

\* C35: the garmr.registered events are as many as the principals created, each
\* emitted once its principal is stored and carrying it; the garmr.authenticated
\* events are as many as the successful authenticate calls plus the successful
\* magic-link verifies that found their principal.
C35_EventsMatchCalls ==
    /\ []C35_EventsState
    /\ [][/\ Creates
            => /\ Len(events') = Len(events) + 1
               /\ events'[Len(events')].name = "garmr.registered"
               /\ store' = store \cup { events'[Len(events')].principal }
               /\ events'[Len(events')].principal \notin store
               /\ SubSeq(events', 1, Len(events)) = events
          /\ SignsIn
            => /\ Len(events') = Len(events) + 1
               /\ events'[Len(events')].name = "garmr.authenticated"
               /\ events'[Len(events')].principal \in store
               /\ store' = store
               /\ SubSeq(events', 1, Len(events)) = events
          /\ ~ (Creates \/ SignsIn) => (events' = events /\ store' = store)]_vars

C35_Witness ==
    /\ Cardinality(store) = 2
    /\ \E x \in store : x.password = NoPassword
    /\ \E x \in store : x.password # NoPassword
    /\ Cardinality(EventsNamed(events, "garmr.registered")) = 2
    /\ Cardinality(EventsNamed(events, "garmr.authenticated")) = 1
    /\ \E c \in Slots : calls[c].error = "QueryFailedError"

\* C36: when two magic-link verify calls for the same new email have both looked
\* the principal up before either saves, at most one principal with that email
\* exists afterwards, exactly one call reports isNewUser with one
\* garmr.registered event, and the other call does not end in an untyped store
\* error.
C36_VerifyRace ==
    /\ \A x, y \in store : EqualIgnoringCase(x.email, y.email) => x = y
    /\ Cardinality(EventsNamed(events, "garmr.registered")) = Cardinality(store)
    /\ \A c \in DoneCalls("magicLinkVerify") :
         /\ calls[c].isNewUser => calls[c].principal \in store
         /\ calls[c].outcome = "error" => calls[c].error \in TypedErrors

\* C37: authenticate({email, password}) for a principal without a stored
\* password hash fails with IncorrectCredentials, as for a wrong password, and
\* never with an untyped error.
C37_PasswordlessIsIncorrect ==
    (/\ last.op = "authenticateCredentials"
     /\ \E x \in PrincipalsFor(last.email) : x.password = NoPassword)
    => /\ last.outcome = "error"
       /\ last.error = "IncorrectCredentialsException"
       /\ last.identifier = last.email

\* C38: on an operation that declares an OR-set the guard allows an
\* authenticated principal only if hasAnyPermission(principal, OR-set) is true,
\* so an OR-set of zero alternatives is denied for every principal.
C38_OrSetEnforced ==
    (/\ req.stage = "allowed"
     /\ req.guard = "RequiresPermission"
     /\ InForce(req.route.any, req.class.any) # UndefinedList)
    => hasAnyPermission(req.permissions, InForce(req.route.any, req.class.any))

\* the permissions of a list, as a set
HeldSet(permissions) ==
    IF permissions = UndefinedList THEN {}
    ELSE { permissions[i] : i \in 1 .. Len(permissions) }

\* C39: permission checks are monotone in the held set: when hasAllPermissions
\* (hasAnyPermission) is true for H and R it is true for every H' containing H,
\* and granting a principal one more permission never turns an allowed guard
\* decision into PermissionDenied.
C39_Monotone ==
    [][/\ (/\ HasAllPermissions
           /\ last.op = "hasAllPermissions"
           /\ last.answer
           /\ last.required = req.route.all
           /\ HeldSet(last.permissions) \subseteq HeldSet(req.permissions))
          => last'.answer
       /\ (/\ HasAnyPermission
           /\ last.op = "hasAnyPermission"
           /\ last.answer
           /\ last.required = req.route.any
           /\ HeldSet(last.permissions) \subseteq HeldSet(req.permissions))
          => last'.answer
       /\ (RequiresPermissionGuard /\ req.earlier = "allowed")
          => /\ req'.stage = "allowed"
             /\ req'.error = ""]_vars

C39_Witness ==
    /\ req.stage = "allowed"
    /\ req.earlier = "allowed"
    /\ req.route.all = << << "a", ":", "b" >> >>
    /\ req.permissions = << << "a", ":", "b" >>, << "a" >> >>
    /\ last.op = "hasAllPermissions"
    /\ last.answer
    /\ last.permissions = req.permissions

\* the positions of the separators of a permission string
Colons(s) == { i \in 1 .. Len(s) : s[i] = ":" }

\* what stands before the first separator
FirstSegment(s) ==
    IF Colons(s) = {} THEN s
    ELSE SubSeq(s, 1, (CHOOSE i \in Colons(s) : \A j \in Colons(s) : i <= j) - 1)

\* what stands between the first separator and the second, or the end
SecondSegment(s) ==
    LET first == CHOOSE i \in Colons(s) : \A j \in Colons(s) : i <= j
    IN  FirstSegment(SubSeq(s, first + 1, Len(s)))

Satisfies(heldPermission, required) ==
    \/ heldPermission = required
    \/ heldPermission = << "*" >>
    \/ /\ Colons(required) # {}
       /\ SecondSegment(required) # << >>
       /\ Colons(heldPermission) # {}
       /\ \/ /\ FirstSegment(heldPermission) = << "*" >>
             /\ SecondSegment(heldPermission) = SecondSegment(required)
          \/ /\ FirstSegment(heldPermission) = FirstSegment(required)
             /\ SecondSegment(heldPermission) = << "*" >>

\* C40: for all held and required strings over the alphabet, matchesPermission
\* is true exactly when held = required, or held = "*", or required has a
\* non-empty second segment and either held is "*" in its first segment with the
\* same second segment, or held has the same first segment and "*" as its
\* second; so "*:*" does not satisfy "a:b", and a wildcard in the required
\* string gives nothing more.
C40_MatchExactly ==
    (last.op = "hasPermission" /\ Len(last.permissions) = 1)
    => (last.answer <=> Satisfies(last.permissions[1], last.permission))

C40_Witness ==
    /\ last.op = "hasPermission"
    /\ last.permissions = << << "*", ":", "*" >> >>
    /\ last.permission = << "a", ":", "b" >>
    /\ last.answer = FALSE

====
